---- MODULE Spec2Model ----
(***************************************************************************)
(* A model of the lightning-knd node controller: the async-request table   *)
(* (AsyncSenders) and the open_channel / FundingGenerationReady hand-over, *)
(* the persistence store seen through its operations, and the REST router. *)
(***************************************************************************)
EXTENDS Integers, Sequences, FiniteSets, TLC

\* ------------------------------------------------------------------ bounds
MaxCalls == 2
MaxKey == 2
MaxPeers == 2
MaxChannels == 1
MaxUpdateId == 11
MaxMissed == 2
MaxRemotes == 1
MaxMonitors == 2
MaxHeight == 2
MaxRequests == 2
MaxPolls == 2
MaxRacers == 2
MaxCount == 2
MaxCounterparties == 2
MaxListed == 2
MaxTests == 3
MaxStops == 3
MaxDetails == 4
MaxHosts == 4
U8Max == 255
\* the length of a node alias (peer_manager.rs: let mut alias = [0; 32])
AliasLen == 32
\* monitor updates of one payment (test_channel_monitors: 0, 5, 10, 11)
UpdatesPerPayment == 5

Tasks == 1..MaxCalls
Keys == 1..MaxKey
Txs == {"txA", "txB"}
FeeRates == {"Normal", "Urgent"}
PubKeys == 1..MaxPeers
Seeds == {"seedA", "seedB"}
Addrs == {"127.0.0.1:1020", "10.0.0.2:9735"}
Outpoints == 1..MaxChannels
Remotes == 1..MaxRemotes
FundingOutpoints == 1..MaxMonitors
Heights == 0..MaxHeight
RequestIds == 1..MaxRequests
Racers == 1..MaxRacers
Counterparties == 1..MaxCounterparties
Tests == 1..MaxTests
Networks == {"bitcoin", "testnet", "signet", "regtest"}
PublicAddresses == {"203.0.113.7:9234"}
NodeNames == {<<"k", "l", "d">>}
\* the chain listeners: 0 is the channel manager, o the monitor of outpoint o
Listeners == 0..MaxMonitors

VARIABLES
    senders,    \* AsyncSenders.senders: HashMap<K, (V, Sender<RV>)>
    chan,       \* the one-shot channel created by each insert, by creating task
    pc,         \* position of each caller (open_channel call or table client)
    uid,        \* the key each caller used
    recv,       \* what each caller's Receiver yielded
    result,     \* what each open_channel call returned
    ldk,        \* channel manager: state of the channel each call created
    events,     \* pending FundingGenerationReady events, in order
    handler,    \* the event handler's position
    closures,   \* respond closures returned by get and not yet invoked
    responded,  \* history: the result the event handler responded for each key
    lastInsert, \* history: the caller whose insert was the last operation on a key
    expect      \* history: what each caller's receiver has to yield

asyncVars == <<senders, chan, pc, uid, recv, result, ldk, events, handler,
               closures, responded, lastInsert, expect>>

VARIABLES
    dbKeys,     \* store: rows of the node-identity table
    dbPeers,    \* store: rows of the peer table
    up,         \* whether the node process is running
    first_start, \* start_ldk's is_first_start of the current run
    nodeKeys,   \* the identity the running node uses
    keysGiven,  \* history: the arguments of the persist_keys call
    peerOp      \* history: the last persist_peer / delete_peer per public key

storeVars == <<dbKeys, dbPeers, up, first_start, nodeKeys, keysGiven, peerOp>>

VARIABLES
    dbMonitors,  \* store: monitor(outpoint) -> (update_id, blob) snapshot rows
    dbUpdates,   \* store: monitor_update(outpoint, update_id) -> blob rows
    mon,         \* chain monitor: latest update id of each live monitor, -1 if none
    todo,        \* monitor updates the current channel activity has yet to produce
    write,       \* the persistence call outstanding for each outpoint
    status,      \* ChannelMonitorUpdateStatus reported for the last call of each outpoint
    failed,      \* channels killed by a PermanentFailure
    closed,      \* channels that were force closed
    completedTo, \* history: the highest update id ever reported Completed, -1 if none
    prevPersisted \* history: the update id the store held before its last commit

monitorVars == <<dbMonitors, dbUpdates, mon, todo, write, status, failed, closed, completedTo,
                 prevPersisted>>

VARIABLES
    apiReq,      \* the request the REST API served last
    apiResp,     \* its response: status, operation invoked, token checked or not
    apiParam,    \* the :id path parameter of the request, "" when the path has none
    apiBody,     \* the JSON body of the response
    apiSeen      \* history: the connected peers and the network when the request was served

apiVars == <<apiReq, apiResp, apiParam, apiBody, apiSeen>>

VARIABLES
    peer_node_ids, \* LdkPeerManager::get_peer_node_ids: the peers past the handshake
    channelPeers, \* the counterparties of list_channels()
    link,         \* the outbound connection opened by the connect_peer call of the API
    call,         \* the PeerManager::connect_peer call of the API
    disc,         \* the disconnect_by_node_id call of the API
    loop,         \* the keep_channel_peers_connected task
    gone,         \* history: what the last disconnect of the API left, until it connects again
    rowBy,        \* history: the public keys whose row the loop wrote last
    missed,       \* history: loop iterations ended since the last attempt or disconnect
    removed       \* history: the operations that made a peer row disappear

peerVars == <<peer_node_ids, channelPeers, link, call, disc, loop, gone, rowBy, missed, removed>>

VARIABLES
    boot,         \* where start_ldk and the task it spawns stand
    chainSynced,  \* whether bitcoind has synchronised the blockchain
    loaded,       \* start_ldk's channelmonitors: the funding outpoints loaded, in order
    synchronized, \* the chain listeners synchronize_listeners brought to the tip
    watched,      \* the watch_channel calls made: the outpoint given and the monitor's own
    poller,       \* the steady-state poller: "none", or the result of its last poll
    tasks         \* the peer tasks running

startVars == <<boot, chainSynced, loaded, synchronized, watched, poller, tasks>>

VARIABLES
    dbManager,            \* store: whether persist_manager has written the channel manager
    manager,              \* the channel manager start_ldk built, and the monitors it was read with
    controller,           \* what start_ldk returned: "none", "Ok" or "Err"
    background_processor, \* "none", "running", "stopped", "failed"
    settings,             \* Settings: bitcoin_network, public_addresses, node_name
    announcements,        \* the broadcast_node_announcement calls of this run
    quit_signal,          \* whether the quit signal has fired
    rest,                 \* RestApi::serve: "none", "serving", "returned", "returned on quit"
    requests,             \* each REST request: "none", "in_flight", "completed"
    grace_elapsed,        \* whether 30 s have passed since the quit signal
    stopping,             \* Controller::stop: "idle", "disconnected", "returned", "panicked"
    peers_disconnected,   \* history: stop has called disconnect_all_peers in this run
    polls_after_quit      \* history: the poller's polls since the quit signal

nodeVars == <<dbManager, manager, controller, background_processor, settings, announcements,
              quit_signal, rest, requests, grace_elapsed, stopping, peers_disconnected,
              polls_after_quit>>

VARIABLES
    best_block,      \* bitcoind: the height of the best block
    blockhash,       \* the block each listener was read with: the last one it processed
    block_connected, \* the blocks connected to each listener in this run, in order
    chain_tip,       \* the tip synchronize_listeners returned and the poller follows
    errors_before    \* history: the failed polls in a row before the poller's last poll

chainVars == <<best_block, blockhash, block_connected, chain_tip, errors_before>>

VARIABLES
    racer,     \* the racing callers of get and respond: their call and what it obtained
    obtained,  \* history: how many calls obtained the Sender of each caller's entry
    sent       \* history: how many responses were sent on each caller's channel

raceVars == <<racer, obtained, sent>>

VARIABLES
    keeper,       \* keep_channel_peers_connected seen alone: where its iteration stands
    node_ids,     \* what get_peer_node_ids answers that task
    peer_rows,    \* the public keys fetch_peer finds a row for
    channel_list  \* the counterparties of list_channels, one per channel

obsVars == <<keeper, node_ids, peer_rows, channel_list>>

VARIABLES
    net_addresses, \* the address get_peer_node_ids knows of each connected peer, if any
    peers_listed   \* the last answer of list_peers, with what it read

listVars == <<net_addresses, peers_listed>>

VARIABLES
    COCKROACH_REF_COUNT, \* the counter of the database tests' shared backend
    cockroach_instance,  \* the once-initialised cell with the backend: empty, running, killed
    tests,               \* each with_cockroach test: where it stands and its body's result
    killed_under         \* history: the tests whose body was running when the backend was killed

harnessVars == <<COCKROACH_REF_COUNT, cockroach_instance, tests, killed_under>>

VARIABLES
    bgp_mutex, \* the Mutex around the background processor: ok, or poisoned by a panic
    bgp_stops, \* history: how many times BackgroundProcessor::stop was called
    stop_log,  \* history: how each call of Controller::stop ended, in order
    dropped    \* the Controller was dropped

stopVars == <<bgp_mutex, bgp_stops, stop_log, dropped>>

VARIABLES
    cm_calls, \* history: the create_channel and close_channel calls the channel manager got
    closing   \* what the last close_channel of each call's channel returned

openVars == <<cm_calls, closing>>

VARIABLES
    cm_channels, \* the channels of the channel manager, as list_channels sees them
    parsed,      \* kld-mgr: the last configuration given to parse_config and its result
    validated    \* kld-mgr: the last host given to validate_host and its result

mgrVars == <<cm_channels, parsed, validated>>

toolVars == <<listVars, harnessVars, stopVars, openVars, mgrVars>>

vars == <<asyncVars, storeVars, monitorVars, apiVars, peerVars, startVars, nodeVars, chainVars,
          raceVars, obsVars, toolVars>>

\* --------------------------------------------------------------- values
Ok(tx) == [ok |-> TRUE, tx |-> tx]
Err == [ok |-> FALSE, tx |-> ""]
Responses == {Ok(tx) : tx \in Txs} \cup {Err}

NoChan == [st |-> "unused", val |-> Err]
NoRecv == [got |-> "none", val |-> Err]
NoResult == [status |-> "none", err |-> "", tx |-> "", txid |-> <<>>]
NoExpect == [kind |-> "none", val |-> Err]
IdleHandler == [st |-> "idle", k |-> 0, v |-> "", tx |-> 0]
NoKeys == [public |-> 0, private |-> ""]
NoWrite == [st |-> "none", kind |-> "", update_id |-> 0]
NoRequest == [method |-> "", path |-> "", macaroon |-> ""]
NoResponse == [status |-> 0, op |-> "none", checked |-> FALSE]
NoBody == [kind |-> "none"]
NoSeen == [peers |-> {}, network |-> ""]
NoLink == [st |-> "none", pk |-> 0]
NoCall == [pc |-> "idle", pk |-> 0, addr |-> "", entry |-> FALSE, tcp |-> FALSE,
           wrote |-> FALSE, saw |-> FALSE, result |-> ""]
NoDisc == [pc |-> "idle", pk |-> 0, off |-> FALSE]
IdleLoop == [pc |-> "tick", todo |-> {}, pk |-> 0, addr |-> ""]
NoRacer == [pc |-> "idle", op |-> "", k |-> 0, seen |-> 0, got |-> 0,
            removed |-> FALSE, warned |-> FALSE]
\* kld-mgr: nothing parsed or validated yet
NoCall_mgr == [called |-> FALSE]

NoTest == [pc |-> "idle", result |-> "none"]
\* no address known of a peer; nothing listed yet
NoAddress == "None"

NoPeers == [result |-> "none", connected_peers |-> {}, peers |-> {}]

NoAttempt == [connected |-> FALSE, channel |-> FALSE, row |-> FALSE, listed |-> FALSE]
IdleKeeper == [pc |-> "tick", before |-> {}, connected_node_ids |-> {}, listed |-> <<>>,
               todo |-> <<>>, log |-> <<>>, node_id |-> 0, calls |-> 0, at |-> NoAttempt]
NoManager == [kind |-> "none", read |-> FALSE, monitors |-> {}]
DefaultSettings == [bitcoin_network |-> "bitcoin", public_addresses |-> {},
                    node_name |-> <<"k", "l", "d">>]

\* bitcoin::Transaction::txid: the double SHA-256 of the serialised transaction
txid(transaction) == <<"sha256d", transaction>>

\* ------------------------------------------------- tokio one-shot channel
\* Sender::send: delivers unless the Receiver was dropped (then it is_err)
send(c, rv) ==
    chan' = [chan EXCEPT ![c] = IF pc[c] = "cancelled"
                                THEN [st |-> "closed", val |-> Err]
                                ELSE [st |-> "sent", val |-> rv]]

\* dropping a Sender that never sent closes the channel
DropSender(ch, c) ==
    IF ch[c].st = "open" THEN [ch EXCEPT ![c] = [st |-> "closed", val |-> Err]] ELSE ch

\* Receiver.await: the value sent, or RecvError once the Sender is gone
ReceiverReady(c) == chan[c].st \in {"sent", "closed"}
ReceiverYield(c) ==
    IF chan[c].st = "sent" THEN [got |-> "value", val |-> chan[c].val]
                           ELSE [got |-> "error", val |-> Err]

\* ------------------------------------------------------------ AsyncSenders
\* faulty insert: the replaced entry's Sender is kept alive
insert_keep(k, v, c) ==
    /\ senders' = [x \in DOMAIN senders \cup {k} |->
                      IF x = k THEN [v |-> v, tx |-> c] ELSE senders[x]]
    /\ chan' = [chan EXCEPT ![c] = [st |-> "open", val |-> Err]]

\* insert(k, v): a fresh one-shot pair; HashMap::insert drops a replaced entry
insert(k, v, c) ==
    /\ senders' = [x \in DOMAIN senders \cup {k} |->
                      IF x = k THEN [v |-> v, tx |-> c] ELSE senders[x]]
    /\ chan' = [(IF k \in DOMAIN senders THEN DropSender(chan, senders[k].tx) ELSE chan)
                   EXCEPT ![c] = [st |-> "open", val |-> Err]]

\* faulty get: hands out the entry's Sender and leaves the entry in the table
get_peek(k) ==
    senders' = senders

\* get(k): removes the entry under the write lock; the closure owns the Sender
get(k) ==
    senders' = [x \in DOMAIN senders \ {k} |-> senders[x]]

\* faulty respond: removes the entry and drops its Sender without sending
respond_drop(k, rv) ==
    /\ senders' = [x \in DOMAIN senders \ {k} |-> senders[x]]
    /\ chan' = IF k \in DOMAIN senders THEN DropSender(chan, senders[k].tx) ELSE chan

\* respond(k, rv): removes the entry and sends on its Sender
respond(k, rv) ==
    /\ senders' = [x \in DOMAIN senders \ {k} |-> senders[x]]
    /\ IF k \in DOMAIN senders THEN send(senders[k].tx, rv) ELSE chan' = chan

\* ------------------------------------------------------------------- Init
Init ==
    /\ senders = [x \in {} |-> [v |-> "", tx |-> 0]]
    /\ chan = [t \in Tasks |-> NoChan]
    /\ pc = [t \in Tasks |-> "idle"]
    /\ uid = [t \in Tasks |-> 0]
    /\ recv = [t \in Tasks |-> NoRecv]
    /\ result = [t \in Tasks |-> NoResult]
    /\ ldk = [t \in Tasks |-> "none"]
    /\ events = <<>>
    /\ handler = IdleHandler
    /\ closures = {}
    /\ responded = [k \in Keys |-> NoExpect]
    /\ lastInsert = [k \in Keys |-> 0]
    /\ expect = [t \in Tasks |-> NoExpect]
    /\ dbKeys = {}
    /\ dbPeers = {}
    /\ up = FALSE
    /\ first_start = FALSE
    /\ nodeKeys = NoKeys
    /\ keysGiven = NoKeys
    /\ peerOp = [pk \in PubKeys |-> [op |-> "none", net_address |-> ""]]
    /\ dbMonitors = {}
    /\ dbUpdates = {}
    /\ mon = [o \in Outpoints |-> -1]
    /\ todo = [o \in Outpoints |-> 0]
    /\ write = [o \in Outpoints |-> NoWrite]
    /\ status = [o \in Outpoints |-> "none"]
    /\ failed = [o \in Outpoints |-> FALSE]
    /\ closed = [o \in Outpoints |-> FALSE]
    /\ completedTo = [o \in Outpoints |-> -1]
    /\ prevPersisted = [o \in Outpoints |-> -2]
    /\ apiReq = NoRequest
    /\ apiResp = NoResponse
    /\ apiParam = ""
    /\ apiBody = NoBody
    /\ apiSeen = NoSeen
    /\ racer = [r \in Racers |-> NoRacer]
    /\ obtained = [t \in Tasks |-> 0]
    /\ sent = [t \in Tasks |-> 0]
    /\ keeper = IdleKeeper
    /\ node_ids = {}
    /\ peer_rows = {}
    /\ channel_list = <<>>
    /\ net_addresses = [node_id \in Counterparties |-> NoAddress]
    /\ peers_listed = NoPeers
    /\ COCKROACH_REF_COUNT = 0
    /\ cockroach_instance = "empty"
    /\ tests = [t \in Tests |-> NoTest]
    /\ killed_under = {}
    /\ bgp_mutex = "ok"
    /\ bgp_stops = 0
    /\ stop_log = <<>>
    /\ dropped = FALSE
    /\ cm_calls = {}
    /\ closing = [t \in Tasks |-> NoResult]
    /\ cm_channels = <<>>
    /\ parsed = NoCall_mgr
    /\ validated = NoCall_mgr
    /\ peer_node_ids = {}
    /\ channelPeers \in SUBSET {pk \in Remotes : pk = 1}
    /\ link = NoLink
    /\ call = NoCall
    /\ disc = NoDisc
    /\ loop = IdleLoop
    /\ gone = [pk \in Remotes |-> ""]
    /\ rowBy = {}
    /\ missed = [pk \in Remotes |-> 0]
    /\ removed = {}
    /\ boot = "none"
    /\ chainSynced = FALSE
    /\ loaded = <<>>
    /\ synchronized = {}
    /\ watched = <<>>
    /\ poller = "none"
    /\ tasks = {}
    /\ dbManager = FALSE
    /\ manager = NoManager
    /\ controller = "none"
    /\ background_processor = "none"
    /\ settings = DefaultSettings
    /\ announcements = {}
    /\ quit_signal = FALSE
    /\ rest = "none"
    /\ requests = [r \in RequestIds |-> "none"]
    /\ grace_elapsed = FALSE
    /\ stopping = "idle"
    /\ peers_disconnected = FALSE
    /\ polls_after_quit = 0
    /\ best_block = 0
    /\ blockhash = [l \in Listeners |-> 0]
    /\ block_connected = [l \in Listeners |-> <<>>]
    /\ chain_tip = 0
    /\ errors_before = 0

\* ------------------------------------------- Controller::open_channel
\* what open_channel returns when it fails before the table is touched
OpenChannelError(synced, connected) ==
    [NoResult EXCEPT !.status = "err",
        !.err = IF ~synced THEN "Bitcoind is syncronising blockchain"
                ELSE IF ~connected THEN "Peer not connected"
                ELSE "ldk error"]

\* the create_channel call the channel manager got, if the checks let it through
CreateChannelCalled(t, synced, connected, created) ==
    IF synced /\ connected
    THEN cm_calls \cup {[op |-> "create_channel", by |-> t, ok |-> created]}
    ELSE cm_calls

\* a faulty open_channel: the table entry is inserted before create_channel is
\* called and is left there when create_channel fails
open_channel_insert_first(t) ==
    /\ pc[t] = "idle"
    /\ \E synced \in BOOLEAN, connected \in BOOLEAN, created \in BOOLEAN,
          user_channel_id \in Keys :
        /\ cm_calls' = CreateChannelCalled(t, synced, connected, created)
        /\ IF ~synced \/ ~connected \/ ~created
           THEN /\ result' = [result EXCEPT ![t] = OpenChannelError(synced, connected)]
                /\ pc' = [pc EXCEPT ![t] = "done"]
                /\ IF synced /\ connected
                   THEN insert(user_channel_id, "Normal", t)
                   ELSE UNCHANGED <<senders, chan>>
                /\ UNCHANGED <<uid, ldk>>
           ELSE /\ uid' = [uid EXCEPT ![t] = user_channel_id]
                /\ ldk' = [ldk EXCEPT ![t] = "opening"]
                /\ pc' = [pc EXCEPT ![t] = "created"]
                /\ UNCHANGED <<result, senders, chan>>
    /\ UNCHANGED <<recv, events, handler, closures, responded, lastInsert, expect>>
    /\ UNCHANGED closing
    /\ UNCHANGED <<storeVars, monitorVars, apiVars, peerVars, startVars, nodeVars, chainVars,
                   raceVars, obsVars, listVars, harnessVars, stopVars, mgrVars>>

\* the synchronisation and connection checks, random() and create_channel
open_channel_create(t) ==
    /\ pc[t] = "idle"
    /\ \E synced \in BOOLEAN, connected \in BOOLEAN, created \in BOOLEAN,
          user_channel_id \in Keys :
        /\ cm_calls' = CreateChannelCalled(t, synced, connected, created)
        /\ IF ~synced \/ ~connected \/ ~created
           THEN /\ result' = [result EXCEPT ![t] = OpenChannelError(synced, connected)]
                /\ pc' = [pc EXCEPT ![t] = "done"]
                /\ UNCHANGED <<uid, ldk>>
           ELSE /\ uid' = [uid EXCEPT ![t] = user_channel_id]
                /\ ldk' = [ldk EXCEPT ![t] = "opening"]
                /\ pc' = [pc EXCEPT ![t] = "created"]
                /\ UNCHANGED result
    /\ UNCHANGED <<senders, chan, recv, events, handler, closures, responded, lastInsert, expect>>
    /\ UNCHANGED closing
    /\ UNCHANGED <<storeVars, monitorVars, apiVars, peerVars, startVars, nodeVars, chainVars,
                   raceVars, obsVars, listVars, harnessVars, stopVars, mgrVars>>

\* funding_transactions.insert(user_channel_id, fee_rate).await
open_channel_insert(t) ==
    /\ pc[t] = "created"
    /\ \E fee_rate \in FeeRates : insert(uid[t], fee_rate, t)
    /\ pc' = [pc EXCEPT ![t] = "waiting"]
    /\ UNCHANGED <<uid, recv, result, ldk, events, handler, closures, responded, lastInsert, expect>>
    /\ UNCHANGED <<storeVars, monitorVars, apiVars, peerVars, startVars, nodeVars, chainVars,
                   raceVars, obsVars, toolVars>>

\* faulty result: the response is not looked at
OpenChannelResult_fixed(r) ==
    [status |-> "ok", err |-> "", tx |-> "txA", txid |-> txid("txA")]

\* receiver.await??, transaction.txid() and the OpenChannelResult
OpenChannelResult(r) ==
    IF r.got = "value" /\ r.val.ok
    THEN [status |-> "ok", err |-> "", tx |-> r.val.tx, txid |-> txid(r.val.tx)]
    ELSE [NoResult EXCEPT !.status = "err",
             !.err = IF r.got = "value" THEN "funding failed" ELSE "channel closed"]

open_channel_receive(t) ==
    /\ pc[t] = "waiting"
    /\ ReceiverReady(t)
    /\ recv' = [recv EXCEPT ![t] = ReceiverYield(t)]
    /\ result' = [result EXCEPT ![t] = OpenChannelResult(ReceiverYield(t))]
    /\ pc' = [pc EXCEPT ![t] = "done"]
    /\ UNCHANGED <<senders, chan, uid, ldk, events, handler, closures, responded, lastInsert, expect>>
    /\ UNCHANGED <<storeVars, monitorVars, apiVars, peerVars, startVars, nodeVars, chainVars,
                   raceVars, obsVars, toolVars>>

\* the open_channel future is dropped at one of its await points
open_channel_dropped(t) ==
    /\ pc[t] \in {"created", "waiting"}
    /\ pc' = [pc EXCEPT ![t] = "cancelled"]
    /\ UNCHANGED <<senders, chan, uid, recv, result, ldk, events, handler, closures, responded,
                   lastInsert, expect>>
    /\ UNCHANGED <<storeVars, monitorVars, apiVars, peerVars, startVars, nodeVars, chainVars,
                   raceVars, obsVars, toolVars>>

\* Controller::close_channel on the channel a call created: the synchronisation
\* check, then the channel manager, which knows the channel or answers an error
close_channel(t) ==
    /\ \E synced \in BOOLEAN :
        IF ~synced
        THEN /\ closing' = [closing EXCEPT ![t] = OpenChannelError(FALSE, TRUE)]
             /\ UNCHANGED <<ldk, cm_calls>>
        ELSE LET known == ldk[t] \in {"opening", "ready"}
             IN  /\ cm_calls' = cm_calls \cup {[op |-> "close_channel", by |-> t, ok |-> known]}
                 /\ ldk' = [ldk EXCEPT ![t] = IF known THEN "closed" ELSE @]
                 /\ closing' = [closing EXCEPT ![t] =
                        IF known THEN [NoResult EXCEPT !.status = "ok"]
                        ELSE [NoResult EXCEPT !.status = "err", !.err = "ldk error"]]
    /\ UNCHANGED <<senders, chan, pc, uid, recv, result, events, handler, closures, responded,
                   lastInsert, expect>>
    /\ UNCHANGED <<storeVars, monitorVars, apiVars, peerVars, startVars, nodeVars, chainVars,
                   raceVars, obsVars, listVars, harnessVars, stopVars, mgrVars>>

\* the counterparty accepts: the channel manager queues FundingGenerationReady
\* echoing the user_channel_id given to create_channel
FundingGenerationReady(t) ==
    /\ ldk[t] = "opening"
    /\ ldk' = [ldk EXCEPT ![t] = "ready"]
    /\ events' = Append(events, [user_channel_id |-> uid[t], call |-> t])
    /\ UNCHANGED <<senders, chan, pc, uid, recv, result, handler, closures, responded,
                   lastInsert, expect>>
    /\ UNCHANGED <<storeVars, monitorVars, apiVars, peerVars, startVars, nodeVars, chainVars,
                   raceVars, obsVars, toolVars>>

\* ------------------------------------------------ EventHandler (4.G)
\* look the user_channel_id up in the table to retrieve the fee rate
handle_event_lookup ==
    /\ handler.st = "idle"
    /\ events # <<>>
    /\ LET k == Head(events).user_channel_id IN
        /\ get(k)
        /\ handler' = IF k \in DOMAIN senders
                      THEN [st |-> "funding", k |-> k, v |-> senders[k].v, tx |-> senders[k].tx]
                      ELSE IdleHandler
    /\ events' = Tail(events)
    /\ ldk' = [ldk EXCEPT ![Head(events).call] = "handled"]
    /\ UNCHANGED <<chan, pc, uid, recv, result, closures, responded, lastInsert, expect>>
    /\ UNCHANGED <<storeVars, monitorVars, apiVars, peerVars, startVars, nodeVars, chainVars,
                   raceVars, obsVars, toolVars>>

\* wallet.fund_tx, funding_transaction_generated, then respond Ok(tx) or Err
handle_event_respond ==
    /\ handler.st = "funding"
    /\ \E rv \in Responses :
        /\ send(handler.tx, rv)
        /\ responded' = [responded EXCEPT ![handler.k] = [kind |-> "responded", val |-> rv]]
    /\ handler' = IdleHandler
    /\ UNCHANGED <<senders, pc, uid, recv, result, ldk, events, closures, lastInsert, expect>>
    /\ UNCHANGED <<storeVars, monitorVars, apiVars, peerVars, startVars, nodeVars, chainVars,
                   raceVars, obsVars, toolVars>>

Next ==
    \/ \E t \in Tasks : open_channel_create(t)
    \/ \E t \in Tasks : open_channel_insert(t)
    \/ \E t \in Tasks : open_channel_receive(t)
    \/ \E t \in Tasks : open_channel_dropped(t)
    \/ \E t \in Tasks : FundingGenerationReady(t)
    \/ handle_event_lookup
    \/ handle_event_respond

Spec == Init /\ [][Next]_vars

\* open_channel and close_channel without the event handler
OpenNext ==
    \/ \E t \in Tasks : open_channel_create(t)
    \/ \E t \in Tasks : open_channel_insert(t)
    \/ \E t \in Tasks : open_channel_receive(t)
    \/ \E t \in Tasks : open_channel_dropped(t)
    \/ \E t \in Tasks : FundingGenerationReady(t)
    \/ \E t \in Tasks : close_channel(t)

OpenSpec == Init /\ [][OpenNext]_vars

\* The executor schedules every runnable task and the background processor
\* handles every queued event; the counterparty owes no answer.
FairSpec ==
    /\ Spec
    /\ \A t \in Tasks : WF_vars(open_channel_insert(t)) /\ WF_vars(open_channel_receive(t))
    /\ WF_vars(handle_event_lookup)
    /\ WF_vars(handle_event_respond)

\* ------------------------------------------- clients of an AsyncSenders table
\* History kept for the table's contract: lastInsert[k] is the caller whose insert
\* was the last operation on k, expect[t] what became of the Sender of t's insert.
Expect(e, t, kind, rv) ==
    IF t = 0 \/ pc[t] = "cancelled" THEN e ELSE [e EXCEPT ![t] = [kind |-> kind, val |-> rv]]

client_insert(t, k, v) ==
    /\ pc[t] = "idle"
    /\ insert(k, v, t)
    /\ pc' = [pc EXCEPT ![t] = "waiting"]
    /\ uid' = [uid EXCEPT ![t] = k]
    /\ lastInsert' = [lastInsert EXCEPT ![k] = t]
    /\ expect' = Expect(expect, lastInsert[k], "replaced", Err)
    /\ UNCHANGED <<recv, result, ldk, events, handler, closures, responded>>
    /\ UNCHANGED <<storeVars, monitorVars, apiVars, peerVars, startVars, nodeVars, chainVars,
                   raceVars, obsVars, toolVars>>

client_get(k) ==
    /\ get(k)
    /\ closures' = IF k \in DOMAIN senders
                   THEN closures \cup {[tx |-> senders[k].tx, owner |-> lastInsert[k]]}
                   ELSE closures
    /\ lastInsert' = [lastInsert EXCEPT ![k] = 0]
    /\ UNCHANGED <<chan, pc, uid, recv, result, ldk, events, handler, responded, expect>>
    /\ UNCHANGED <<storeVars, monitorVars, apiVars, peerVars, startVars, nodeVars, chainVars,
                   raceVars, obsVars, toolVars>>

\* the closure returned by get is invoked with a response
client_invoke(cl, rv) ==
    /\ cl \in closures
    /\ send(cl.tx, rv)
    /\ closures' = closures \ {cl}
    /\ expect' = Expect(expect, cl.owner, "invoked", rv)
    /\ UNCHANGED <<senders, pc, uid, recv, result, ldk, events, handler, responded, lastInsert>>
    /\ UNCHANGED <<storeVars, monitorVars, apiVars, peerVars, startVars, nodeVars, chainVars,
                   raceVars, obsVars, toolVars>>

\* the closure returned by get is dropped uninvoked, and its Sender with it
client_discard(cl) ==
    /\ cl \in closures
    /\ chan' = DropSender(chan, cl.tx)
    /\ closures' = closures \ {cl}
    /\ expect' = Expect(expect, cl.owner, "discarded", Err)
    /\ UNCHANGED <<senders, pc, uid, recv, result, ldk, events, handler, responded, lastInsert>>
    /\ UNCHANGED <<storeVars, monitorVars, apiVars, peerVars, startVars, nodeVars, chainVars,
                   raceVars, obsVars, toolVars>>

client_respond(k, rv) ==
    /\ respond(k, rv)
    /\ lastInsert' = [lastInsert EXCEPT ![k] = 0]
    /\ expect' = Expect(expect, lastInsert[k], "responded", rv)
    /\ UNCHANGED <<pc, uid, recv, result, ldk, events, handler, closures, responded>>
    /\ UNCHANGED <<storeVars, monitorVars, apiVars, peerVars, startVars, nodeVars, chainVars,
                   raceVars, obsVars, toolVars>>

client_receive(t) ==
    /\ pc[t] = "waiting"
    /\ ReceiverReady(t)
    /\ recv' = [recv EXCEPT ![t] = ReceiverYield(t)]
    /\ pc' = [pc EXCEPT ![t] = "done"]
    /\ UNCHANGED <<senders, chan, uid, result, ldk, events, handler, closures, responded,
                   lastInsert, expect>>
    /\ UNCHANGED <<storeVars, monitorVars, apiVars, peerVars, startVars, nodeVars, chainVars,
                   raceVars, obsVars, toolVars>>

client_drop_receiver(t) ==
    /\ pc[t] = "waiting"
    /\ pc' = [pc EXCEPT ![t] = "cancelled"]
    /\ UNCHANGED <<senders, chan, uid, recv, result, ldk, events, handler, closures, responded,
                   lastInsert, expect>>
    /\ UNCHANGED <<storeVars, monitorVars, apiVars, peerVars, startVars, nodeVars, chainVars,
                   raceVars, obsVars, toolVars>>

\* ------------------------------------------ racing calls of get and respond
\* a caller enters get(k) or respond(k, rv) and waits for the write lock
race_call(r, op, k) ==
    /\ racer[r].pc = "idle"
    /\ racer' = [racer EXCEPT ![r] = [NoRacer EXCEPT !.pc = "waiting", !.op = op, !.k = k,
                                                      !.seen = lastInsert[k]]]
    /\ UNCHANGED <<asyncVars, obtained, sent>>
    /\ UNCHANGED <<storeVars, monitorVars, apiVars, peerVars, startVars, nodeVars, chainVars, obsVars, toolVars>>

Count(counter, t) == [counter EXCEPT ![t] = IF @ < MaxCount THEN @ + 1 ELSE @]

\* get(k) under the write lock: the entry, if there is one, leaves with its closure
race_get(r) ==
    LET k == racer[r].k
        found == k \in DOMAIN senders
    IN  /\ racer[r].pc = "waiting"
        /\ racer[r].op = "get"
        /\ get(k)
        /\ closures' = IF found
                       THEN closures \cup {[tx |-> senders[k].tx, owner |-> lastInsert[k]]}
                       ELSE closures
        /\ lastInsert' = [lastInsert EXCEPT ![k] = 0]
        /\ obtained' = IF found THEN Count(obtained, senders[k].tx) ELSE obtained
        /\ racer' = [racer EXCEPT ![r].pc = "done",
                                  ![r].got = IF found THEN senders[k].tx ELSE 0,
                                  ![r].removed = k \notin DOMAIN senders']
        /\ UNCHANGED <<chan, pc, uid, recv, result, ldk, events, handler, responded, expect, sent>>
        /\ UNCHANGED <<storeVars, monitorVars, apiVars, peerVars, startVars, nodeVars, chainVars, obsVars, toolVars>>

\* respond(k, rv) under the write lock: the entry is removed and its Sender used;
\* a dropped Receiver is logged and the call returns
race_respond(r, rv) ==
    LET k == racer[r].k
        found == k \in DOMAIN senders
    IN  /\ racer[r].pc = "waiting"
        /\ racer[r].op = "respond"
        /\ respond(k, rv)
        /\ lastInsert' = [lastInsert EXCEPT ![k] = 0]
        /\ expect' = Expect(expect, lastInsert[k], "responded", rv)
        /\ obtained' = IF found THEN Count(obtained, senders[k].tx) ELSE obtained
        /\ sent' = IF found THEN Count(sent, senders[k].tx) ELSE sent
        /\ racer' = [racer EXCEPT ![r].pc = "done",
                                  ![r].got = IF found THEN senders[k].tx ELSE 0,
                                  ![r].removed = k \notin DOMAIN senders',
                                  ![r].warned = found /\ pc[senders[k].tx] = "cancelled"]
        /\ UNCHANGED <<pc, uid, recv, result, ldk, events, handler, closures, responded>>
        /\ UNCHANGED <<storeVars, monitorVars, apiVars, peerVars, startVars, nodeVars, chainVars, obsVars, toolVars>>

\* the closure a get returned is invoked with a response
race_invoke(cl, rv) ==
    /\ cl \in closures
    /\ send(cl.tx, rv)
    /\ closures' = closures \ {cl}
    /\ expect' = Expect(expect, cl.owner, "invoked", rv)
    /\ sent' = Count(sent, cl.tx)
    /\ UNCHANGED <<senders, pc, uid, recv, result, ldk, events, handler, responded, lastInsert,
                   racer, obtained>>
    /\ UNCHANGED <<storeVars, monitorVars, apiVars, peerVars, startVars, nodeVars, chainVars, obsVars, toolVars>>

TableNext ==
    \/ \E t \in Tasks, k \in Keys, v \in FeeRates : client_insert(t, k, v)
    \/ \E k \in Keys : client_get(k)
    \/ \E cl \in closures, rv \in Responses : client_invoke(cl, rv)
    \/ \E cl \in closures : client_discard(cl)
    \/ \E k \in Keys, rv \in Responses : client_respond(k, rv)
    \/ \E t \in Tasks : client_receive(t)
    \/ \E t \in Tasks : client_drop_receiver(t)

TableSpec == Init /\ [][TableNext]_vars

RaceNext ==
    \/ \E t \in Tasks, k \in Keys : client_insert(t, k, "Normal")
    \/ \E r \in Racers, op \in {"get", "respond"}, k \in Keys : race_call(r, op, k)
    \/ \E r \in Racers : race_get(r)
    \/ \E r \in Racers, rv \in {Ok("txA"), Err} : race_respond(r, rv)
    \/ \E cl \in closures, rv \in {Ok("txA"), Err} : race_invoke(cl, rv)
    \/ \E cl \in closures : client_discard(cl)
    \/ \E t \in Tasks : client_drop_receiver(t)

RaceSpec == Init /\ [][RaceNext]_vars

\* ------------------------------------------------- the persistence store
\* PublicKey::serialize / PublicKey::from_slice: the 33-byte compressed form
PublicKey_serialize(public_key) == <<"secp256k1", public_key>>
PublicKey_from_slice(bytes) == bytes[2]
\* NetAddress::write / NetAddress::read: a type byte and the address
NetAddress_write(net_address) == <<"ipv4", net_address>>
NetAddress_read(bytes) == bytes[2]

\* faulty deserialisation: the address column is not read
Peer_deserialize_no_address(public_key, net_address) ==
    [public_key |-> PublicKey_from_slice(public_key), net_address |-> "127.0.0.1:1020"]

\* Peer::deserialize(public_key, net_address)
Peer_deserialize(public_key, net_address) ==
    [public_key |-> PublicKey_from_slice(public_key),
     net_address |-> NetAddress_read(net_address)]

\* faulty is_first_start: the store is not consulted
is_first_start_always == TRUE

\* is_first_start(): true iff the node-identity row is absent
is_first_start == dbKeys = {}

\* persist_keys(pub, priv): writes the node-identity row
persist_keys(public, private) ==
    dbKeys' = dbKeys \cup {[public_key |-> PublicKey_serialize(public),
                            private_key |-> private]}

\* fetch_keys(): the node-identity row
fetch_keys ==
    LET row == CHOOSE r \in dbKeys : TRUE IN
    [public |-> PublicKey_from_slice(row.public_key), private |-> row.private_key]

\* persist_peer(peer): one row per public key, replaced if present
persist_peer(peer) ==
    dbPeers' = {r \in dbPeers : r.public_key # PublicKey_serialize(peer.public_key)}
                  \cup {[public_key |-> PublicKey_serialize(peer.public_key),
                         net_address |-> NetAddress_write(peer.net_address)]}

\* delete_peer(pub)
delete_peer(public_key) ==
    dbPeers' = {r \in dbPeers : r.public_key # PublicKey_serialize(public_key)}

\* fetch_peers(): every row, deserialised
fetch_peers == {Peer_deserialize(r.public_key, r.net_address) : r \in dbPeers}

\* node start: the identity is created on first start and read on every later one
start_node ==
    /\ ~up
    /\ IF is_first_start
       THEN \E public \in PubKeys, private \in Seeds :
               /\ persist_keys(public, private)
               /\ nodeKeys' = [public |-> public, private |-> private]
               /\ keysGiven' = [public |-> public, private |-> private]
       ELSE /\ nodeKeys' = fetch_keys
            /\ UNCHANGED <<dbKeys, keysGiven>>
    /\ up' = TRUE
    /\ first_start' = is_first_start
    /\ UNCHANGED <<dbPeers, peerOp>>
    /\ UNCHANGED <<asyncVars, monitorVars, apiVars, peerVars, startVars, nodeVars, chainVars,
                   raceVars, obsVars, toolVars>>

\* the process stops or crashes: what is in memory is lost, the store stays
stop_node ==
    /\ up
    /\ up' = FALSE
    /\ nodeKeys' = NoKeys
    /\ boot' = "none"
    /\ loaded' = <<>>
    /\ synchronized' = {}
    /\ watched' = <<>>
    /\ poller' = "none"
    /\ tasks' = {}
    /\ manager' = NoManager
    /\ controller' = "none"
    /\ background_processor' = "none"
    /\ announcements' = {}
    /\ quit_signal' = FALSE
    /\ rest' = "none"
    /\ requests' = [r \in RequestIds |-> "none"]
    /\ grace_elapsed' = FALSE
    /\ stopping' = "idle"
    /\ peers_disconnected' = FALSE
    /\ polls_after_quit' = 0
    /\ UNCHANGED settings
    /\ UNCHANGED <<dbKeys, dbPeers, first_start, keysGiven, peerOp>>
    /\ blockhash' = [l \in Listeners |-> 0]
    /\ block_connected' = [l \in Listeners |-> <<>>]
    /\ chain_tip' = 0
    /\ errors_before' = 0
    /\ UNCHANGED <<chainSynced, dbManager, best_block>>
    /\ bgp_mutex' = "ok"
    /\ bgp_stops' = 0
    /\ stop_log' = <<>>
    /\ dropped' = FALSE
    /\ UNCHANGED <<asyncVars, monitorVars, apiVars, peerVars, raceVars, obsVars, listVars,
                   harnessVars, openVars, mgrVars>>

store_persist_peer(public_key, net_address) ==
    /\ up
    /\ persist_peer([public_key |-> public_key, net_address |-> net_address])
    /\ peerOp' = [peerOp EXCEPT ![public_key] = [op |-> "persist", net_address |-> net_address]]
    /\ UNCHANGED <<dbKeys, up, first_start, nodeKeys, keysGiven>>
    /\ UNCHANGED <<asyncVars, monitorVars, apiVars, peerVars, startVars, nodeVars, chainVars,
                   raceVars, obsVars, toolVars>>

store_delete_peer(public_key) ==
    /\ up
    /\ delete_peer(public_key)
    /\ peerOp' = [peerOp EXCEPT ![public_key] = [op |-> "delete", net_address |-> ""]]
    /\ UNCHANGED <<dbKeys, up, first_start, nodeKeys, keysGiven>>
    /\ UNCHANGED <<asyncVars, monitorVars, apiVars, peerVars, startVars, nodeVars, chainVars,
                   raceVars, obsVars, toolVars>>

StoreNext ==
    \/ start_node
    \/ stop_node
    \/ \E public_key \in PubKeys, net_address \in Addrs : store_persist_peer(public_key, net_address)
    \/ \E public_key \in PubKeys : store_delete_peer(public_key)

StoreSpec == Init /\ [][StoreNext]_vars

\* --------------------------------------------- channel-monitor persistence
\* persist_new_channel(outpoint, monitor, update_id): the snapshot row, replaced atomically
persist_new_channel(o, update_id) ==
    /\ dbMonitors' = {r \in dbMonitors : r.outpoint # o}
                        \cup {[outpoint |-> o, update_id |-> update_id]}
    /\ UNCHANGED dbUpdates

\* update_persisted_channel(outpoint, update_id, update): an appended update row
update_persisted_channel(o, update_id) ==
    /\ dbUpdates' = dbUpdates \cup {[outpoint |-> o, update_id |-> update_id]}
    /\ UNCHANGED dbMonitors

\* fetch_channel_monitors: each snapshot with its updates applied in update_id order
RECURSIVE ApplyUpdates(_, _)
ApplyUpdates(o, update_id) ==
    IF [outpoint |-> o, update_id |-> update_id + 1] \in dbUpdates
    THEN ApplyUpdates(o, update_id + 1)
    ELSE update_id

fetch_channel_monitors ==
    {[outpoint |-> r.outpoint, snapshot |-> r.update_id,
      latest_update_id |-> ApplyUpdates(r.outpoint, r.update_id)] : r \in dbMonitors}

MonitorsOf(o) == {m \in fetch_channel_monitors : m.outpoint = o}

\* the latest update id the store holds for an outpoint, -1 if it holds none
Persisted(o) ==
    IF MonitorsOf(o) = {} THEN -1
    ELSE (CHOOSE m \in MonitorsOf(o) :
             \A n \in MonitorsOf(o) : n.latest_update_id <= m.latest_update_id).latest_update_id

\* the chain monitor hands a new monitor or an update to the persister
Persist(o, kind, update_id) ==
    /\ mon' = [mon EXCEPT ![o] = update_id]
    /\ write' = [write EXCEPT ![o] = [st |-> "inflight", kind |-> kind, update_id |-> update_id]]
    /\ status' = [status EXCEPT ![o] = "InProgress"]

\* create_announced_chan_between_nodes: the monitor of a new channel, update id 0
create_channel(o) ==
    /\ mon[o] = -1
    /\ ~failed[o]
    /\ write[o].st = "none"
    /\ Persist(o, "new", 0)
    /\ UNCHANGED <<dbMonitors, dbUpdates, todo, failed, closed, completedTo, prevPersisted>>
    /\ UNCHANGED <<asyncVars, storeVars, apiVars, peerVars, startVars, nodeVars, chainVars,
                   raceVars, obsVars, toolVars>>

\* send_payment: a payment over the channel takes UpdatesPerPayment monitor updates
send_payment(o) ==
    /\ mon[o] >= 0
    /\ todo[o] = 0
    /\ ~closed[o]
    /\ ~failed[o]
    /\ mon[o] + UpdatesPerPayment < MaxUpdateId
    /\ todo' = [todo EXCEPT ![o] = UpdatesPerPayment]
    /\ UNCHANGED <<dbMonitors, dbUpdates, mon, write, status, failed, closed, completedTo, prevPersisted>>
    /\ UNCHANGED <<asyncVars, storeVars, apiVars, peerVars, startVars, nodeVars, chainVars,
                   raceVars, obsVars, toolVars>>

\* force_close_broadcasting_latest_txn: one more monitor update
force_close(o) ==
    /\ mon[o] >= 0
    /\ todo[o] = 0
    /\ ~closed[o]
    /\ ~failed[o]
    /\ mon[o] < MaxUpdateId
    /\ closed' = [closed EXCEPT ![o] = TRUE]
    /\ todo' = [todo EXCEPT ![o] = 1]
    /\ UNCHANGED <<dbMonitors, dbUpdates, mon, write, status, failed, completedTo, prevPersisted>>
    /\ UNCHANGED <<asyncVars, storeVars, apiVars, peerVars, startVars, nodeVars, chainVars,
                   raceVars, obsVars, toolVars>>

\* the next monitor update of the activity; updates of one outpoint are serialised
monitor_update(o) ==
    /\ todo[o] > 0
    /\ write[o].st = "none"
    /\ ~failed[o]
    /\ Persist(o, "update", mon[o] + 1)
    /\ todo' = [todo EXCEPT ![o] = todo[o] - 1]
    /\ UNCHANGED <<dbMonitors, dbUpdates, failed, closed, completedTo, prevPersisted>>
    /\ UNCHANGED <<asyncVars, storeVars, apiVars, peerVars, startVars, nodeVars, chainVars,
                   raceVars, obsVars, toolVars>>

\* the store commits the write
db_commit(o) ==
    /\ write[o].st = "inflight"
    /\ IF write[o].kind = "new"
       THEN persist_new_channel(o, write[o].update_id)
       ELSE update_persisted_channel(o, write[o].update_id)
    /\ write' = [write EXCEPT ![o].st = "committed"]
    /\ prevPersisted' = [prevPersisted EXCEPT ![o] = Persisted(o)]
    /\ UNCHANGED <<mon, todo, status, failed, closed, completedTo>>
    /\ UNCHANGED <<asyncVars, storeVars, apiVars, peerVars, startVars, nodeVars, chainVars,
                   raceVars, obsVars, toolVars>>

\* faulty persister: Completed is reported before the store committed
persist_completed_early(o) ==
    /\ write[o].st = "inflight"
    /\ status' = [status EXCEPT ![o] = "Completed"]
    /\ completedTo' = [completedTo EXCEPT ![o] = write[o].update_id]
    /\ write' = [write EXCEPT ![o] = NoWrite]
    /\ UNCHANGED <<dbMonitors, dbUpdates, mon, todo, failed, closed, prevPersisted>>
    /\ UNCHANGED <<asyncVars, storeVars, apiVars, peerVars, startVars, nodeVars, chainVars,
                   raceVars, obsVars, toolVars>>

\* the persistence reply is observed: the call is reported Completed
persist_completed(o) ==
    /\ write[o].st = "committed"
    /\ status' = [status EXCEPT ![o] = "Completed"]
    /\ completedTo' = [completedTo EXCEPT ![o] = write[o].update_id]
    /\ write' = [write EXCEPT ![o] = NoWrite]
    /\ UNCHANGED <<dbMonitors, dbUpdates, mon, todo, failed, closed, prevPersisted>>
    /\ UNCHANGED <<asyncVars, storeVars, apiVars, peerVars, startVars, nodeVars, chainVars,
                   raceVars, obsVars, toolVars>>

\* the write fails for good: PermanentFailure kills the channel
persist_failed(o) ==
    /\ write[o].st = "inflight"
    /\ status' = [status EXCEPT ![o] = "PermanentFailure"]
    /\ failed' = [failed EXCEPT ![o] = TRUE]
    /\ write' = [write EXCEPT ![o] = NoWrite]
    /\ todo' = [todo EXCEPT ![o] = 0]
    /\ UNCHANGED <<dbMonitors, dbUpdates, mon, closed, completedTo, prevPersisted>>
    /\ UNCHANGED <<asyncVars, storeVars, apiVars, peerVars, startVars, nodeVars, chainVars,
                   raceVars, obsVars, toolVars>>

\* faulty start: the persisted monitors are not loaded
MonitorLoaded_none(o) == -1

\* start_ldk after a crash: the monitors are those fetch_channel_monitors returns
MonitorLoaded(o) ==
    IF \E m \in fetch_channel_monitors : m.outpoint = o
    THEN (CHOOSE m \in fetch_channel_monitors : m.outpoint = o).latest_update_id
    ELSE -1

restart ==
    /\ mon' = [o \in Outpoints |-> MonitorLoaded(o)]
    /\ todo' = [o \in Outpoints |-> 0]
    /\ write' = [o \in Outpoints |-> NoWrite]
    /\ status' = [o \in Outpoints |-> "none"]
    /\ UNCHANGED <<dbMonitors, dbUpdates, failed, closed, completedTo, prevPersisted>>
    /\ UNCHANGED <<asyncVars, storeVars, apiVars, peerVars, startVars, nodeVars, chainVars,
                   raceVars, obsVars, toolVars>>

MonitorNext ==
    \/ \E o \in Outpoints : create_channel(o)
    \/ \E o \in Outpoints : send_payment(o)
    \/ \E o \in Outpoints : force_close(o)
    \/ \E o \in Outpoints : monitor_update(o)
    \/ \E o \in Outpoints : db_commit(o)
    \/ \E o \in Outpoints : persist_completed(o)
    \/ \E o \in Outpoints : persist_failed(o)
    \/ restart

MonitorSpec == Init /\ [][MonitorNext]_vars

\* ------------------------------------------------------------------ REST API
Methods == {"GET", "POST", "DELETE", "PUT", "OPTIONS"}

\* the macaroon header of a request: absent, not a macaroon, a macaroon signed
\* with another root key, or one this node minted
Macaroons == {"absent", "garbage", "foreign", "readonly", "admin"}

\* the route table of RestApi::serve, with the role each handler asks for
Routes ==
    [ROOT                  |-> [method |-> "GET",    role |-> "readonly", op |-> "none"],
     GET_INFO              |-> [method |-> "GET",    role |-> "readonly", op |-> "get_info"],
     GET_BALANCE           |-> [method |-> "GET",    role |-> "readonly", op |-> "get_balance"],
     LIST_CHANNELS         |-> [method |-> "GET",    role |-> "readonly", op |-> "list_channels"],
     OPEN_CHANNEL          |-> [method |-> "POST",   role |-> "admin",    op |-> "open_channel"],
     SET_CHANNEL_FEE       |-> [method |-> "POST",   role |-> "admin",    op |-> "set_channel_fee"],
     CLOSE_CHANNEL         |-> [method |-> "DELETE", role |-> "admin",    op |-> "close_channel"],
     NEW_ADDR              |-> [method |-> "GET",    role |-> "admin",    op |-> "new_address"],
     WITHDRAW              |-> [method |-> "POST",   role |-> "admin",    op |-> "transfer"],
     LIST_PEERS            |-> [method |-> "GET",    role |-> "readonly", op |-> "list_peers"],
     CONNECT_PEER          |-> [method |-> "POST",   role |-> "admin",    op |-> "connect_peer"],
     DISCONNECT_PEER       |-> [method |-> "DELETE", role |-> "admin",    op |-> "disconnect_peer"],
     LIST_NETWORK_NODE     |-> [method |-> "GET",    role |-> "readonly", op |-> "get_network_node"],
     LIST_NETWORK_NODES    |-> [method |-> "GET",    role |-> "readonly", op |-> "list_network_nodes"],
     LIST_NETWORK_CHANNEL  |-> [method |-> "GET",    role |-> "readonly", op |-> "get_network_channel"],
     LIST_NETWORK_CHANNELS |-> [method |-> "GET",    role |-> "readonly", op |-> "list_network_channels"],
     WEBSOCKET             |-> [method |-> "GET",    role |-> "readonly", op |-> "ws_handler"]]

RoutedPaths == DOMAIN Routes
Paths == RoutedPaths \cup {"/x"}

verify_readonly_macaroon(macaroon) == macaroon \in {"readonly", "admin"}
verify_admin_macaroon(macaroon) == macaroon = "admin"

\* faulty verification: every role is satisfied by a readonly macaroon
Verify_any_role(role, macaroon) == verify_readonly_macaroon(macaroon)

Verify(role, macaroon) ==
    IF role = "admin" THEN verify_admin_macaroon(macaroon)
    ELSE verify_readonly_macaroon(macaroon)

\* ApiError::into_response: the status of each kind of answer
StatusOf(kind) ==
    CASE kind = "Unauthorized" -> 401
      [] kind = "NotFound" -> 404
      [] kind = "BadRequest" -> 400
      [] kind = "InternalServerError" -> 500
      [] kind = "MethodNotAllowed" -> 405
      [] OTHER -> 200

\* http::StatusCode's Display: the code and its canonical reason
StatusCode_to_string(status_code) ==
    CASE status_code = 400 -> "400 Bad Request"
      [] status_code = 401 -> "401 Unauthorized"
      [] status_code = 404 -> "404 Not Found"
      [] status_code = 405 -> "405 Method Not Allowed"
      [] status_code = 500 -> "500 Internal Server Error"
      [] OTHER -> "200 OK"

\* faulty rendering: the body always carries the status of an internal error
build_api_error_internal(status_code, detail) ==
    [status |-> StatusCode_to_string(500), detail |-> detail]

\* serde_json::to_value of a struct of two strings succeeds, so build_api_error's
\* fallback (500 with the bare status) is never taken
build_api_error(status_code, detail) ==
    [status |-> StatusCode_to_string(status_code), detail |-> detail]

ApiErrors == {"Unauthorized", "NotFound", "BadRequest", "InternalServerError"}

\* ApiError::into_response: the body of each kind of error, given what it carries
into_response(kind, carried) ==
    [kind |-> kind,
     json |-> CASE kind = "Unauthorized" -> build_api_error(401, "Failed to verify macaroon")
                [] kind = "NotFound" -> build_api_error(404, carried)
                [] kind = "BadRequest" -> build_api_error(400, carried)
                [] kind = "InternalServerError" -> build_api_error(500, carried)]

\* what an error carries when the handler is not modelled in detail
Carried(kind) ==
    CASE kind = "NotFound" -> "No such method"
      [] kind = "BadRequest" -> "bad request"
      [] OTHER -> "internal error"

Respond(method, path, macaroon, id, kind, carried, op) ==
    /\ apiReq' = [method |-> method, path |-> path, macaroon |-> macaroon]
    /\ apiResp' = [status |-> StatusOf(kind), op |-> op, checked |-> TRUE]
    /\ apiParam' = id
    /\ apiBody' = IF kind \in ApiErrors THEN into_response(kind, carried) ELSE NoBody
    /\ apiSeen' = NoSeen
    /\ UNCHANGED <<asyncVars, storeVars, monitorVars, peerVars, startVars, nodeVars, chainVars,
                   raceVars, obsVars, toolVars>>

Answer(method, path, macaroon, kind, op, checked) ==
    /\ apiReq' = [method |-> method, path |-> path, macaroon |-> macaroon]
    /\ apiResp' = [status |-> StatusOf(kind), op |-> op, checked |-> checked]
    /\ apiParam' = ""
    /\ apiBody' = IF kind \in ApiErrors THEN into_response(kind, Carried(kind)) ELSE NoBody
    /\ apiSeen' = NoSeen
    /\ UNCHANGED <<asyncVars, storeVars, monitorVars, peerVars, startVars, nodeVars, chainVars,
                   raceVars, obsVars, toolVars>>

\* CorsLayer::permissive() wraps the router and answers every OPTIONS request itself
cors(path, macaroon) ==
    /\ path \in Paths
    /\ Answer("OPTIONS", path, macaroon, "Ok", "none", FALSE)

\* no route has the path: Router::fallback
handler_404(method, macaroon) ==
    /\ method # "OPTIONS"
    /\ Answer(method, "/x", macaroon, "NotFound", "none", FALSE)

\* the path is routed, but not for this method: the method router's own answer
method_not_allowed(method, path, macaroon) ==
    /\ method # "OPTIONS"
    /\ path \in RoutedPaths
    /\ method # Routes[path].method
    /\ Answer(method, path, macaroon, "MethodNotAllowed", "none", FALSE)

\* faulty root handler: the macaroon is not verified
root_open(macaroon) ==
    Answer("GET", "ROOT", macaroon, "Ok", "none", TRUE)

root(macaroon) ==
    IF verify_readonly_macaroon(macaroon)
    THEN Answer("GET", "ROOT", macaroon, "Ok", "none", TRUE)
    ELSE Answer("GET", "ROOT", macaroon, "Unauthorized", "none", TRUE)

\* every other handler: verify the macaroon for its role, then call the operation
api_handler(path, macaroon) ==
    /\ path \in RoutedPaths \ {"ROOT"}
    /\ IF Verify(Routes[path].role, macaroon)
       THEN \E kind \in {"Ok", "BadRequest", "InternalServerError"} :
               Answer(Routes[path].method, path, macaroon, kind, Routes[path].op, TRUE)
       ELSE Answer(Routes[path].method, path, macaroon, "Unauthorized", "none", TRUE)

\* the :id path parameters requests carry: node ids and short channel ids
NodeIds == {"abcd", "02e8"}
ChannelIds == {"123456789", "1x1x0"}

\* PublicKey::from_str: a 33-byte compressed key in hex, or an error
PublicKey_from_str(id) == IF id = "02e8" THEN [ok |-> TRUE, err |-> ""]
                          ELSE [ok |-> FALSE, err |-> "malformed public key"]

\* Controller::get_channel: the channel of the network graph with this id, if any
get_channel(channel_id) == channel_id \in {"1x1x0"}

\* DELETE /v1/peer/disconnect/:id
disconnect_peer(id, macaroon) ==
    /\ id \in NodeIds
    /\ IF ~verify_admin_macaroon(macaroon)
       THEN Respond("DELETE", "DISCONNECT_PEER", macaroon, id, "Unauthorized", "", "none")
       ELSE IF ~PublicKey_from_str(id).ok
       THEN Respond("DELETE", "DISCONNECT_PEER", macaroon, id, "BadRequest",
                    PublicKey_from_str(id).err, "none")
       ELSE \E kind \in {"Ok", "InternalServerError"} :
               Respond("DELETE", "DISCONNECT_PEER", macaroon, id, kind, Carried(kind),
                       "disconnect_peer")

\* GET /v1/network/listChannel/:id
get_network_channel(id, macaroon) ==
    /\ id \in ChannelIds
    /\ IF ~verify_readonly_macaroon(macaroon)
       THEN Respond("GET", "LIST_NETWORK_CHANNEL", macaroon, id, "Unauthorized", "", "none")
       ELSE IF ~get_channel(id)
       THEN Respond("GET", "LIST_NETWORK_CHANNEL", macaroon, id, "NotFound",
                    "Channel not found", "get_network_channel")
       ELSE Respond("GET", "LIST_NETWORK_CHANNEL", macaroon, id, "Ok", "",
                    "get_network_channel")

ApiNext ==
    \/ \E path \in Paths, macaroon \in Macaroons : cors(path, macaroon)
    \/ \E method \in Methods, macaroon \in Macaroons : handler_404(method, macaroon)
    \/ \E method \in Methods, path \in Paths, macaroon \in Macaroons :
          method_not_allowed(method, path, macaroon)
    \/ \E macaroon \in Macaroons : root(macaroon)
    \/ \E path \in Paths, macaroon \in Macaroons : api_handler(path, macaroon)

ApiSpec == Init /\ [][ApiNext]_vars

ErrorNext ==
    \/ \E method \in Methods, macaroon \in Macaroons : handler_404(method, macaroon)
    \/ \E method \in Methods, path \in Paths, macaroon \in Macaroons :
          method_not_allowed(method, path, macaroon)
    \/ \E macaroon \in Macaroons : root(macaroon)
    \/ \E id \in NodeIds, macaroon \in Macaroons : disconnect_peer(id, macaroon)
    \/ \E id \in ChannelIds, macaroon \in Macaroons : get_network_channel(id, macaroon)

ErrorSpec == Init /\ [][ErrorNext]_vars

\* ------------------------------------------------------------ PeerManager
\* fetch_peer(pub): the rows of the public key, deserialised
fetch_peer(public_key) == {p \in fetch_peers : p.public_key = public_key}

is_connected(public_key) == public_key \in peer_node_ids

\* the peer row is wanted for reconnecting: a channel counterparty with a row, not connected
NeedsReconnect(pk) == pk \in channelPeers /\ fetch_peer(pk) # {} /\ ~is_connected(pk)

\* the public keys that have a row
RowKeys == {p.public_key : p \in fetch_peers}

\* the operations that made a row disappear: the row of the public key they
\* were called for, or another one
Removed(by, pk) == removed \cup {[by |-> by, own |-> (k = pk)] : k \in RowKeys \ RowKeys'}

\* the connection of the API call is torn down with its peer
CloseLinks(lk, pks) ==
    IF lk.st = "up" /\ lk.pk \in pks THEN [lk EXCEPT !.st = "closed"] ELSE lk

\* faulty connect_peer: the peer is connected to without the check on entry
connect_peer_enter_unchecked(public_key, peer_addr) ==
    /\ call.pc \in {"idle", "done"}
    /\ call' = [NoCall EXCEPT !.pc = "connecting", !.pk = public_key, !.addr = peer_addr,
                              !.entry = is_connected(public_key)]
    /\ UNCHANGED <<peer_node_ids, channelPeers, link, disc, loop, gone, rowBy, missed>>
    /\ UNCHANGED <<asyncVars, storeVars, monitorVars, apiVars, startVars, nodeVars, chainVars,
                   raceVars, obsVars, toolVars>>
    /\ UNCHANGED removed

\* PeerManager::connect_peer: the is_connected check on entry
connect_peer_enter(public_key, peer_addr) ==
    /\ call.pc \in {"idle", "done"}
    /\ call' = IF is_connected(public_key)
               THEN [NoCall EXCEPT !.pc = "done", !.pk = public_key,
                                   !.entry = TRUE, !.result = "Ok"]
               ELSE [NoCall EXCEPT !.pc = "connecting", !.pk = public_key, !.addr = peer_addr]
    /\ UNCHANGED <<peer_node_ids, channelPeers, link, disc, loop, gone, rowBy, missed>>
    /\ UNCHANGED <<asyncVars, storeVars, monitorVars, apiVars, startVars, nodeVars, chainVars,
                   raceVars, obsVars, toolVars>>
    /\ UNCHANGED removed

\* connect_peer (free function): SocketAddr::try_from and connect_outbound
connect_peer_outbound ==
    /\ call.pc = "connecting"
    /\ \E outcome \in {"bad address", "refused", "opened"} :
        IF outcome = "opened"
        THEN /\ link' = [st |-> "open", pk |-> call.pk]
             /\ call' = [call EXCEPT !.pc = "persist", !.tcp = TRUE]
        ELSE /\ call' = [call EXCEPT !.pc = "done", !.addr = "",
                                     !.result = "Could not connect to peer"]
             /\ UNCHANGED link
    /\ UNCHANGED <<peer_node_ids, channelPeers, disc, loop, gone, rowBy, missed>>
    /\ UNCHANGED <<asyncVars, storeVars, monitorVars, apiVars, startVars, nodeVars, chainVars,
                   raceVars, obsVars, toolVars>>
    /\ UNCHANGED removed

\* connect_peer (free function): database.persist_peer, then the handle is returned
connect_peer_persist ==
    /\ call.pc = "persist"
    /\ persist_peer([public_key |-> call.pk, net_address |-> call.addr])
    /\ call' = [call EXCEPT !.pc = "poll", !.wrote = TRUE]
    /\ rowBy' = rowBy \ {call.pk}
    /\ missed' = [missed EXCEPT ![call.pk] = 0]
    /\ UNCHANGED <<peer_node_ids, channelPeers, link, disc, loop, gone>>
    /\ UNCHANGED <<dbKeys, up, first_start, nodeKeys, keysGiven, peerOp>>
    /\ UNCHANGED <<asyncVars, monitorVars, apiVars, startVars, nodeVars, chainVars, raceVars, obsVars, toolVars>>
    /\ removed' = Removed("connect_peer", call.pk)

\* faulty polling loop: Ok as soon as the connection task has not finished
connect_peer_poll_eager ==
    /\ call.pc = "poll"
    /\ IF link.st # "closed"
       THEN /\ call' = [call EXCEPT !.pc = "done", !.addr = "",
                                    !.saw = is_connected(call.pk), !.result = "Ok"]
            /\ gone' = [gone EXCEPT ![call.pk] = ""]
       ELSE /\ call' = [call EXCEPT !.pc = "done", !.addr = "",
                                    !.result = "Peer disconnected"]
            /\ UNCHANGED gone
    /\ UNCHANGED <<peer_node_ids, channelPeers, link, disc, loop, rowBy, missed>>
    /\ UNCHANGED <<asyncVars, storeVars, monitorVars, apiVars, startVars, nodeVars, chainVars,
                   raceVars, obsVars, toolVars>>
    /\ UNCHANGED removed

\* PeerManager::connect_peer: one turn of the polling loop
connect_peer_poll ==
    /\ call.pc = "poll"
    /\ IF is_connected(call.pk)
       THEN /\ call' = [call EXCEPT !.pc = "done", !.addr = "", !.saw = TRUE, !.result = "Ok"]
            /\ gone' = [gone EXCEPT ![call.pk] = ""]
       ELSE /\ call' = IF link.st = "closed"
                       THEN [call EXCEPT !.pc = "done", !.addr = "",
                                              !.result = "Peer disconnected"]
                       ELSE [call EXCEPT !.pc = "sleep"]
            /\ UNCHANGED gone
    /\ UNCHANGED <<peer_node_ids, channelPeers, link, disc, loop, rowBy, missed>>
    /\ UNCHANGED <<asyncVars, storeVars, monitorVars, apiVars, startVars, nodeVars, chainVars,
                   raceVars, obsVars, toolVars>>
    /\ UNCHANGED removed

\* tokio::time::sleep(1 s) of the polling loop
connect_peer_sleep ==
    /\ call.pc = "sleep"
    /\ call' = [call EXCEPT !.pc = "poll"]
    /\ UNCHANGED <<peer_node_ids, channelPeers, link, disc, loop, gone, rowBy, missed>>
    /\ UNCHANGED <<asyncVars, storeVars, monitorVars, apiVars, startVars, nodeVars, chainVars,
                   raceVars, obsVars, toolVars>>
    /\ UNCHANGED removed

\* faulty disconnect: the peer is left connected
disconnect_by_node_id_row_only(node_id) ==
    /\ disc.pc = "idle"
    /\ disc' = [NoDisc EXCEPT !.pc = "deleting", !.pk = node_id,
                           !.off = (node_id \notin peer_node_ids)]
    /\ UNCHANGED <<peer_node_ids, channelPeers, link, call, loop, gone, rowBy, missed>>
    /\ UNCHANGED <<asyncVars, storeVars, monitorVars, apiVars, startVars, nodeVars, chainVars,
                   raceVars, obsVars, toolVars>>
    /\ UNCHANGED removed

\* disconnect_by_node_id: ldk_peer_manager.disconnect_by_node_id
disconnect_by_node_id(node_id) ==
    /\ disc.pc = "idle"
    /\ peer_node_ids' = peer_node_ids \ {node_id}
    /\ link' = CloseLinks(link, {node_id})
    /\ disc' = [NoDisc EXCEPT !.pc = "deleting", !.pk = node_id,
                           !.off = (node_id \notin peer_node_ids')]
    /\ missed' = [missed EXCEPT ![node_id] = 0]
    /\ UNCHANGED <<channelPeers, call, loop, gone, rowBy>>
    /\ UNCHANGED <<asyncVars, storeVars, monitorVars, apiVars, startVars, nodeVars, chainVars,
                   raceVars, obsVars, toolVars>>
    /\ UNCHANGED removed

\* disconnect_by_node_id: database.delete_peer, and the call returns
disconnect_delete_peer ==
    /\ disc.pc = "deleting"
    /\ delete_peer(disc.pk)
    /\ disc' = NoDisc
    /\ gone' = [gone EXCEPT ![disc.pk] = IF disc.pk \in RowKeys' THEN "row kept" ELSE "row deleted"]
    /\ rowBy' = rowBy \ {disc.pk}
    /\ missed' = [missed EXCEPT ![disc.pk] = 0]
    /\ UNCHANGED <<peer_node_ids, channelPeers, link, call, loop>>
    /\ UNCHANGED <<dbKeys, up, first_start, nodeKeys, keysGiven, peerOp>>
    /\ UNCHANGED <<asyncVars, monitorVars, apiVars, startVars, nodeVars, chainVars, raceVars, obsVars, toolVars>>
    /\ removed' = Removed("disconnect_by_node_id", disc.pk)

\* Controller::stop: disconnect_all_peers
disconnect_all_peers ==
    /\ peer_node_ids # {}
    /\ peer_node_ids' = {}
    /\ link' = CloseLinks(link, Remotes)
    /\ missed' = [pk \in Remotes |-> 0]
    /\ UNCHANGED <<channelPeers, call, disc, loop, gone, rowBy>>
    /\ UNCHANGED <<asyncVars, storeVars, monitorVars, apiVars, startVars, nodeVars, chainVars,
                   raceVars, obsVars, toolVars>>
    /\ UNCHANGED removed

\* keep_channel_peers_connected: get_peer_node_ids and list_channels of one iteration
loop_tick ==
    /\ loop.pc = "tick"
    /\ loop' = [IdleLoop EXCEPT !.pc = "fetch", !.todo = channelPeers \ peer_node_ids]
    /\ UNCHANGED <<peer_node_ids, channelPeers, link, call, disc, gone, rowBy, missed>>
    /\ UNCHANGED <<asyncVars, storeVars, monitorVars, apiVars, startVars, nodeVars, chainVars,
                   raceVars, obsVars, toolVars>>
    /\ UNCHANGED removed

\* faulty loop: the unconnected counterparty is looked at and left alone
loop_fetch_peer_skip(unconnected_node_id) ==
    /\ loop.pc = "fetch"
    /\ unconnected_node_id \in loop.todo
    /\ loop' = [loop EXCEPT !.todo = loop.todo \ {unconnected_node_id}]
    /\ UNCHANGED <<peer_node_ids, channelPeers, link, call, disc, gone, rowBy, missed>>
    /\ UNCHANGED <<asyncVars, storeVars, monitorVars, apiVars, startVars, nodeVars, chainVars,
                   raceVars, obsVars, toolVars>>
    /\ UNCHANGED removed

\* database.fetch_peer for the next unconnected counterparty; Some(peer) starts
\* connect_peer with the address of the row
loop_fetch_peer(unconnected_node_id) ==
    /\ loop.pc = "fetch"
    /\ unconnected_node_id \in loop.todo
    /\ IF fetch_peer(unconnected_node_id) # {}
       THEN LET peer == CHOOSE p \in fetch_peer(unconnected_node_id) : TRUE IN
            /\ loop' = [loop EXCEPT !.pc = "connecting",
                                    !.todo = loop.todo \ {unconnected_node_id},
                                    !.pk = peer.public_key, !.addr = peer.net_address]
            /\ missed' = [missed EXCEPT ![unconnected_node_id] = 0]
       ELSE /\ loop' = [loop EXCEPT !.todo = loop.todo \ {unconnected_node_id}]
            /\ UNCHANGED missed
    /\ UNCHANGED <<peer_node_ids, channelPeers, link, call, disc, gone, rowBy>>
    /\ UNCHANGED <<asyncVars, storeVars, monitorVars, apiVars, startVars, nodeVars, chainVars,
                   raceVars, obsVars, toolVars>>
    /\ UNCHANGED removed

\* connect_peer (free function) of the loop: connect_outbound
loop_outbound ==
    /\ loop.pc = "connecting"
    /\ \E outcome \in {"refused", "opened"} :
        loop' = [loop EXCEPT !.pc = IF outcome = "opened" THEN "persist" ELSE "fetch"]
    /\ UNCHANGED <<peer_node_ids, channelPeers, link, call, disc, gone, rowBy, missed>>
    /\ UNCHANGED <<asyncVars, storeVars, monitorVars, apiVars, startVars, nodeVars, chainVars,
                   raceVars, obsVars, toolVars>>
    /\ UNCHANGED removed

\* connect_peer (free function) of the loop: database.persist_peer
loop_persist ==
    /\ loop.pc = "persist"
    /\ persist_peer([public_key |-> loop.pk, net_address |-> loop.addr])
    /\ loop' = [loop EXCEPT !.pc = "fetch"]
    /\ rowBy' = rowBy \cup {loop.pk}
    /\ UNCHANGED <<peer_node_ids, channelPeers, link, call, disc, gone, missed>>
    /\ UNCHANGED <<dbKeys, up, first_start, nodeKeys, keysGiven, peerOp>>
    /\ UNCHANGED <<asyncVars, monitorVars, apiVars, startVars, nodeVars, chainVars, raceVars, obsVars, toolVars>>
    /\ removed' = Removed("keep_channel_peers_connected", loop.pk)

\* the end of an iteration: tokio::time::sleep(1 s)
loop_sleep ==
    /\ loop.pc = "fetch"
    /\ loop.todo = {}
    /\ loop' = IdleLoop
    /\ missed' = [pk \in Remotes |->
                    IF NeedsReconnect(pk)
                    THEN (IF missed[pk] < MaxMissed THEN missed[pk] + 1 ELSE MaxMissed)
                    ELSE 0]
    /\ UNCHANGED <<peer_node_ids, channelPeers, link, call, disc, gone, rowBy>>
    /\ UNCHANGED <<asyncVars, storeVars, monitorVars, apiVars, startVars, nodeVars, chainVars,
                   raceVars, obsVars, toolVars>>
    /\ UNCHANGED removed

\* the remote peer completes the handshake of the connection the API call opened
handshake ==
    /\ link.st = "open"
    /\ IF is_connected(link.pk)
       THEN /\ link' = [link EXCEPT !.st = "closed"]
            /\ UNCHANGED peer_node_ids
       ELSE /\ link' = [link EXCEPT !.st = "up"]
            /\ peer_node_ids' = peer_node_ids \cup {link.pk}
    /\ UNCHANGED <<channelPeers, call, disc, loop, gone, rowBy, missed>>
    /\ UNCHANGED <<asyncVars, storeVars, monitorVars, apiVars, startVars, nodeVars, chainVars,
                   raceVars, obsVars, toolVars>>
    /\ UNCHANGED removed

\* the connection ends before the handshake: connection_closed resolves
connection_closed ==
    /\ link.st = "open"
    /\ link' = [link EXCEPT !.st = "closed"]
    /\ UNCHANGED <<peer_node_ids, channelPeers, call, disc, loop, gone, rowBy, missed>>
    /\ UNCHANGED <<asyncVars, storeVars, monitorVars, apiVars, startVars, nodeVars, chainVars,
                   raceVars, obsVars, toolVars>>
    /\ UNCHANGED removed

\* a connected peer goes away out-of-band
peer_disconnected(pk) ==
    /\ is_connected(pk)
    /\ peer_node_ids' = peer_node_ids \ {pk}
    /\ link' = CloseLinks(link, {pk})
    /\ missed' = [missed EXCEPT ![pk] = 0]
    /\ UNCHANGED <<channelPeers, call, disc, loop, gone, rowBy>>
    /\ UNCHANGED <<asyncVars, storeVars, monitorVars, apiVars, startVars, nodeVars, chainVars,
                   raceVars, obsVars, toolVars>>
    /\ UNCHANGED removed

\* a peer completes the handshake of another connection: one accepted by
\* PeerManager::listen, or one the loop opened
peer_connected(pk) ==
    /\ ~is_connected(pk)
    /\ peer_node_ids' = peer_node_ids \cup {pk}
    /\ UNCHANGED <<channelPeers, link, call, disc, loop, gone, rowBy, missed>>
    /\ UNCHANGED <<asyncVars, storeVars, monitorVars, apiVars, startVars, nodeVars, chainVars,
                   raceVars, obsVars, toolVars>>
    /\ UNCHANGED removed

\* the connect_peer call of the API with its remote peer
ConnectNext ==
    \/ \E public_key \in Remotes, peer_addr \in Addrs : connect_peer_enter(public_key, peer_addr)
    \/ connect_peer_outbound
    \/ connect_peer_persist
    \/ connect_peer_poll
    \/ connect_peer_sleep
    \/ handshake
    \/ connection_closed
    \/ \E pk \in Remotes : peer_disconnected(pk)
    \/ \E pk \in Remotes : peer_connected(pk)
    \/ \E node_id \in Remotes : disconnect_by_node_id(node_id)
    \/ disconnect_delete_peer

ConnectSpec == Init /\ [][ConnectNext]_vars

\* the executor runs the connect_peer call whenever it can take a step; nothing
\* is assumed of the remote peer
ConnectFairSpec ==
    /\ ConnectSpec
    /\ WF_vars(connect_peer_outbound)
    /\ WF_vars(connect_peer_persist)
    /\ WF_vars(connect_peer_poll)
    /\ WF_vars(connect_peer_sleep)

\* the peer manager's operations with the reconnect loop
PeerNext ==
    \/ \E public_key \in Remotes, peer_addr \in Addrs : connect_peer_enter(public_key, peer_addr)
    \/ connect_peer_outbound
    \/ connect_peer_persist
    \/ connect_peer_poll
    \/ connect_peer_sleep
    \/ \E node_id \in Remotes : disconnect_by_node_id(node_id)
    \/ disconnect_delete_peer
    \/ disconnect_all_peers
    \/ loop_tick
    \/ \E unconnected_node_id \in Remotes : loop_fetch_peer(unconnected_node_id)
    \/ loop_outbound
    \/ loop_persist
    \/ loop_sleep
    \/ \E pk \in Remotes : peer_disconnected(pk)
    \/ \E pk \in Remotes : peer_connected(pk)

PeerSpec == Init /\ [][PeerNext]_vars
\* --------------------------------- keep_channel_peers_connected, seen alone
\* The task with list_channels as the vector it is, several counterparties and
\* every outcome of fetch_peer and connect_peer; what the rest of the node does
\* to the peers, the rows and the channels is the environment.
Range(sequence) == {sequence[i] : i \in DOMAIN sequence}

Frame_keeper ==
    UNCHANGED <<asyncVars, storeVars, monitorVars, apiVars, peerVars, startVars, nodeVars,
                chainVars, raceVars, toolVars>>

\* a channel is opened with a counterparty, or the last one listed is closed
channel_opened(node_id) ==
    /\ Len(channel_list) < MaxListed
    /\ channel_list' = Append(channel_list, node_id)
    /\ UNCHANGED <<keeper, node_ids, peer_rows>>
    /\ Frame_keeper

channel_closed ==
    /\ channel_list # <<>>
    /\ channel_list' = SubSeq(channel_list, 1, Len(channel_list) - 1)
    /\ UNCHANGED <<keeper, node_ids, peer_rows>>
    /\ Frame_keeper

\* a peer completes a handshake (the listener accepted it, or a connection that
\* was opened came up), or goes away
node_connected(node_id) ==
    /\ node_id \notin node_ids
    /\ node_ids' = node_ids \cup {node_id}
    /\ UNCHANGED <<keeper, peer_rows, channel_list>>
    /\ Frame_keeper

node_disconnected(node_id) ==
    /\ node_id \in node_ids
    /\ node_ids' = node_ids \ {node_id}
    /\ UNCHANGED <<keeper, peer_rows, channel_list>>
    /\ Frame_keeper

\* the API writes a peer row (connect_peer) or deletes it (disconnect_by_node_id)
row_written(node_id) ==
    /\ node_id \notin peer_rows
    /\ peer_rows' = peer_rows \cup {node_id}
    /\ UNCHANGED <<keeper, node_ids, channel_list>>
    /\ Frame_keeper

row_deleted(node_id) ==
    /\ node_id \in peer_rows
    /\ peer_rows' = peer_rows \ {node_id}
    /\ UNCHANGED <<keeper, node_ids, channel_list>>
    /\ Frame_keeper

\* the head of an iteration: get_peer_node_ids, then list_channels filtered by it
keeper_list ==
    /\ keeper.pc = "tick"
    /\ keeper' = [IdleKeeper EXCEPT
                    !.pc = "fetch",
                    !.before = keeper.before,
                    !.connected_node_ids = node_ids,
                    !.listed = channel_list,
                    !.todo = SelectSeq(channel_list, LAMBDA id : id \notin node_ids)]
    /\ UNCHANGED <<node_ids, peer_rows, channel_list>>
    /\ Frame_keeper

\* history: the counterparties connect_peer was called for in an iteration
Called(log) == {log[i].node_id : i \in {j \in DOMAIN log : log[j].fetched = "Some"}}

Logged(fetched) ==
    Append(keeper.log, [node_id |-> Head(keeper.todo), fetched |-> fetched])

\* what holds of a counterparty when connect_peer is called for it
Attempt(node_id) ==
    [connected |-> node_id \in node_ids,
     channel |-> node_id \in Range(channel_list),
     row |-> node_id \in peer_rows,
     listed |-> node_id \in Range(keeper.listed) /\ node_id \notin keeper.connected_node_ids]

\* faulty task: an error of fetch_peer ends it
keeper_fetch_peer_propagate ==
    /\ keeper.pc = "fetch"
    /\ keeper.todo # <<>>
    /\ keeper' = [keeper EXCEPT !.pc = "ended"]
    /\ UNCHANGED <<node_ids, peer_rows, channel_list>>
    /\ Frame_keeper

\* database.fetch_peer(&unconnected_node_id) answers Err: logged, next counterparty
keeper_fetch_peer_failed ==
    /\ keeper.pc = "fetch"
    /\ keeper.todo # <<>>
    /\ keeper' = [keeper EXCEPT !.todo = Tail(keeper.todo), !.log = Logged("Err")]
    /\ UNCHANGED <<node_ids, peer_rows, channel_list>>
    /\ Frame_keeper

\* database.fetch_peer(&unconnected_node_id) answers Ok: Some(peer) calls
\* connect_peer, None goes on to the next counterparty
keeper_fetch_peer ==
    /\ keeper.pc = "fetch"
    /\ keeper.todo # <<>>
    /\ LET unconnected_node_id == Head(keeper.todo) IN
       IF unconnected_node_id \in peer_rows
       THEN /\ keeper' = [keeper EXCEPT !.pc = "connect", !.todo = Tail(keeper.todo),
                                        !.log = Logged("Some"),
                                        !.calls = keeper.calls + 1,
                                        !.node_id = unconnected_node_id,
                                        !.at = Attempt(unconnected_node_id)]
       ELSE keeper' = [keeper EXCEPT !.todo = Tail(keeper.todo), !.log = Logged("None")]
    /\ UNCHANGED <<node_ids, peer_rows, channel_list>>
    /\ Frame_keeper

\* connect_peer (free function) returns: an error of SocketAddr::try_from, of
\* connect_outbound or of persist_peer is dropped by `let _ =`; Ok has written the row
keeper_connect_peer ==
    /\ keeper.pc = "connect"
    /\ \E outcome \in {"Err", "Ok"} :
          peer_rows' = IF outcome = "Ok" THEN peer_rows \cup {keeper.node_id} ELSE peer_rows
    /\ keeper' = [keeper EXCEPT !.pc = "fetch", !.node_id = 0, !.at = NoAttempt]
    /\ UNCHANGED <<node_ids, channel_list>>
    /\ Frame_keeper

\* the end of an iteration: tokio::time::sleep(1 s)
keeper_sleep ==
    /\ keeper.pc = "fetch"
    /\ keeper.todo = <<>>
    /\ keeper' = [IdleKeeper EXCEPT !.before = Called(keeper.log)]
    /\ UNCHANGED <<node_ids, peer_rows, channel_list>>
    /\ Frame_keeper

KeeperNext ==
    \/ \E node_id \in Counterparties : channel_opened(node_id)
    \/ channel_closed
    \/ \E node_id \in Counterparties : node_connected(node_id)
    \/ \E node_id \in Counterparties : node_disconnected(node_id)
    \/ \E node_id \in Counterparties : row_written(node_id)
    \/ \E node_id \in Counterparties : row_deleted(node_id)
    \/ keeper_list
    \/ keeper_fetch_peer_failed
    \/ keeper_fetch_peer
    \/ keeper_connect_peer
    \/ keeper_sleep

KeeperSpec == Init /\ [][KeeperNext]_vars

\* ------------------------------------------------------------- list_peers
\* Controller::list_peers with the peers LDK holds, the channels and the peer
\* rows it reads. LDK keeps an address of a connected peer only when the
\* connection was set up with one.
Frame_list ==
    UNCHANGED <<asyncVars, storeVars, monitorVars, apiVars, peerVars, startVars, nodeVars,
                chainVars, raceVars, harnessVars, stopVars, openVars, mgrVars>>

\* a peer completes the handshake; the connection was set up with an address or
\* without one
peer_accepted(node_id, net_address) ==
    /\ node_id \notin node_ids
    /\ node_ids' = node_ids \cup {node_id}
    /\ net_addresses' = [net_addresses EXCEPT ![node_id] = net_address]
    /\ UNCHANGED <<keeper, peer_rows, channel_list, peers_listed>>
    /\ Frame_list

peer_left(node_id) ==
    /\ node_id \in node_ids
    /\ node_ids' = node_ids \ {node_id}
    /\ net_addresses' = [net_addresses EXCEPT ![node_id] = NoAddress]
    /\ UNCHANGED <<keeper, peer_rows, channel_list, peers_listed>>
    /\ Frame_list

\* PeerManager::get_connected_peers: get_peer_node_ids of LDK
get_connected_peers ==
    {[node_id |-> node_id, net_address |-> net_addresses[node_id]] : node_id \in node_ids}

\* the alias the network graph has of a node: it has an announcement of node 1
\* only, and unwrap_or_default of None is the empty string
alias_of(public_key) == IF public_key = 1 THEN "kld-1" ELSE ""

\* the entry list_peers pushes for a public key
Peer(public_key, connected_peers) ==
    LET net_address ==
            IF \E p \in connected_peers : p.node_id = public_key
            THEN (CHOOSE p \in connected_peers : p.node_id = public_key).net_address
            ELSE NoAddress
    IN  [public_key |-> public_key,
         net_address |-> net_address,
         status |-> IF net_address # NoAddress THEN "Connected" ELSE "Disconnected",
         alias |-> alias_of(public_key)]

\* Controller::list_peers
list_peers ==
    \E persistent_peers \in {"Ok", "Err"} :
        LET connected_peers == get_connected_peers
            channel_peers == Range(channel_list)
            all_pub_keys ==
                {p.node_id : p \in connected_peers} \cup channel_peers \cup peer_rows
        IN  /\ peers_listed' =
                   IF persistent_peers = "Err"
                   THEN [result |-> "Err", connected_peers |-> connected_peers, peers |-> {}]
                   ELSE [result |-> "Ok",
                         connected_peers |-> connected_peers,
                         peers |-> {Peer(public_key, connected_peers) :
                                        public_key \in all_pub_keys}]
            /\ UNCHANGED <<keeper, node_ids, peer_rows, channel_list, net_addresses>>
            /\ Frame_list

ListNext ==
    \/ \E node_id \in Counterparties, net_address \in Addrs \cup {NoAddress} :
          peer_accepted(node_id, net_address)
    \/ \E node_id \in Counterparties : peer_left(node_id)
    \/ \E node_id \in Counterparties : channel_opened(node_id)
    \/ channel_closed
    \/ \E node_id \in Counterparties : row_written(node_id)
    \/ \E node_id \in Counterparties : row_deleted(node_id)
    \/ list_peers

ListSpec == Init /\ [][ListNext]_vars

\* --------------------------------------------- the database tests' backend
\* with_cockroach, cockroach and teardown of the database tests: every test runs
\* on a thread of its own, and each atomic operation on the counter or the cell
\* is a step.
Frame_harness ==
    UNCHANGED <<asyncVars, storeVars, monitorVars, apiVars, peerVars, startVars, nodeVars,
                chainVars, raceVars, obsVars, listVars, stopVars, openVars, mgrVars>>

U16(n) == n % 65536

\* cockroach: COCKROACH_REF_COUNT.fetch_add(1)
cockroach_fetch_add(t) ==
    /\ tests[t].pc = "idle"
    /\ COCKROACH_REF_COUNT' = U16(COCKROACH_REF_COUNT + 1)
    /\ tests' = [tests EXCEPT ![t].pc = "counted"]
    /\ UNCHANGED <<cockroach_instance, killed_under>>
    /\ Frame_harness

\* cockroach: get_or_try_init on the cell starts the backend if it is empty
\* and hands out what the cell holds
cockroach_get_or_try_init(t) ==
    /\ tests[t].pc = "counted"
    /\ cockroach_instance' =
          IF cockroach_instance = "empty" THEN "running" ELSE cockroach_instance
    /\ tests' = [tests EXCEPT ![t].pc = "test"]
    /\ UNCHANGED <<COCKROACH_REF_COUNT, killed_under>>
    /\ Frame_harness

\* with_cockroach: the test's body runs to its result under catch_unwind
with_cockroach_test(t, v) ==
    /\ tests[t].pc = "test"
    /\ tests' = [tests EXCEPT ![t] = [pc |-> "teardown", result |-> v]]
    /\ UNCHANGED <<COCKROACH_REF_COUNT, cockroach_instance, killed_under>>
    /\ Frame_harness

\* teardown: COCKROACH_REF_COUNT.fetch_sub(1) == 1
teardown_fetch_sub(t) ==
    /\ tests[t].pc = "teardown"
    /\ COCKROACH_REF_COUNT' = U16(COCKROACH_REF_COUNT - 1)
    /\ tests' = [tests EXCEPT ![t].pc =
                    IF COCKROACH_REF_COUNT = 1 THEN "last" ELSE "returned"]
    /\ UNCHANGED <<cockroach_instance, killed_under>>
    /\ Frame_harness

\* teardown: the last one calls cockroach() for the cell, which counts again
teardown_cockroach(t) ==
    /\ tests[t].pc = "last"
    /\ COCKROACH_REF_COUNT' = U16(COCKROACH_REF_COUNT + 1)
    /\ tests' = [tests EXCEPT ![t].pc = "kill"]
    /\ UNCHANGED <<cockroach_instance, killed_under>>
    /\ Frame_harness

\* teardown: lock.kill() on what the cell holds
teardown_kill(t) ==
    /\ tests[t].pc = "kill"
    /\ cockroach_instance' = "killed"
    /\ killed_under' = killed_under \cup {u \in Tests : tests[u].pc = "test"}
    /\ tests' = [tests EXCEPT ![t].pc = "returned"]
    /\ UNCHANGED COCKROACH_REF_COUNT
    /\ Frame_harness

HarnessNext ==
    \/ \E t \in Tests : cockroach_fetch_add(t)
    \/ \E t \in Tests : cockroach_get_or_try_init(t)
    \/ \E t \in Tests, v \in {"Ok", "Err", "panic"} : with_cockroach_test(t, v)
    \/ \E t \in Tests : teardown_fetch_sub(t)
    \/ \E t \in Tests : teardown_cockroach(t)
    \/ \E t \in Tests : teardown_kill(t)

HarnessSpec == Init /\ [][HarnessNext]_vars

\* ------------------------------------------------- the channel counters
\* The channels of the channel manager. LDK reports is_channel_ready once the
\* funding is locked in and is_usable while such a channel's peer is connected.
Frame_count ==
    /\ UNCHANGED <<asyncVars, storeVars, monitorVars, apiVars, peerVars, startVars, nodeVars,
                   chainVars, raceVars, obsVars, listVars, harnessVars, stopVars, openVars>>
    /\ UNCHANGED <<parsed, validated>>

ChannelDetails(c) ==
    [is_channel_ready |-> c.ready, is_usable |-> c.ready /\ c.peer_connected]

\* Controller::list_channels: channel_manager.list_channels()
list_channels == [i \in DOMAIN cm_channels |-> ChannelDetails(cm_channels[i])]

\* a faulty num_inactive_channels: every ready channel is counted
num_inactive_channels_ready ==
    Cardinality({i \in DOMAIN list_channels : list_channels[i].is_channel_ready})

num_active_channels ==
    Cardinality({i \in DOMAIN list_channels : list_channels[i].is_usable})

num_inactive_channels ==
    Cardinality({i \in DOMAIN list_channels :
                    list_channels[i].is_channel_ready /\ ~list_channels[i].is_usable})

num_pending_channels ==
    Cardinality({i \in DOMAIN list_channels : ~list_channels[i].is_channel_ready})

\* a channel is created with a connected peer
channel_created ==
    /\ Len(cm_channels) < MaxDetails
    /\ cm_channels' = Append(cm_channels, [ready |-> FALSE, peer_connected |-> TRUE])
    /\ Frame_count

\* the funding of a channel is locked in
channel_ready(i) ==
    /\ i \in DOMAIN cm_channels
    /\ ~cm_channels[i].ready
    /\ cm_channels[i].peer_connected
    /\ cm_channels' = [cm_channels EXCEPT ![i].ready = TRUE]
    /\ Frame_count

\* the peer of a channel disconnects or connects again
channel_peer(i) ==
    /\ i \in DOMAIN cm_channels
    /\ cm_channels' = [cm_channels EXCEPT ![i].peer_connected = ~@]
    /\ Frame_count

\* a channel is closed and leaves the list
channel_removed(i) ==
    /\ i \in DOMAIN cm_channels
    /\ cm_channels' = [j \in 1..(Len(cm_channels) - 1) |->
                          IF j < i THEN cm_channels[j] ELSE cm_channels[j + 1]]
    /\ Frame_count

CountNext ==
    \/ channel_created
    \/ \E i \in 1..MaxDetails : channel_ready(i)
    \/ \E i \in 1..MaxDetails : channel_peer(i)
    \/ \E i \in 1..MaxDetails : channel_removed(i)

CountSpec == Init /\ [][CountNext]_vars

\* ------------------------------------------------------ kld-mgr: config.rs
\* validate_host and parse_config are functions of their arguments. An Option
\* is the set of its value, a String that is matched or parsed a sequence of
\* characters, an IpAddr the text it was parsed from.
Frame_mgr ==
    /\ UNCHANGED <<asyncVars, storeVars, monitorVars, apiVars, peerVars, startVars, nodeVars,
                   chainVars, raceVars, obsVars, listVars, harnessVars, stopVars, openVars>>
    /\ UNCHANGED cm_channels

Option_or(a, b) == IF a # {} THEN a ELSE b

Unwrap(a) == CHOOSE x \in a : TRUE

Ipv4Texts == {"192.168.0.1", "192.168.255.255"}
Ipv6Texts == {"2607:5300:203:6cdf::", "2607:5300:203:6cff::1"}

is_ipv4(address) == address \in Ipv4Texts
is_ipv6(address) == address \in Ipv6Texts

\* str::parse::<IpAddr>
parse_IpAddr(text) == IF text \in Ipv4Texts \cup Ipv6Texts THEN {text} ELSE {}

DigitChars == <<"0", "1", "2", "3", "4", "5", "6", "7", "8", "9">>
LowerChars == {"a", "b", "d", "k", "l", "x"}

DigitOf(ch) == (CHOOSE d \in DOMAIN DigitChars : DigitChars[d] = ch) - 1

RECURSIVE Decimal(_)
Decimal(digits) ==
    IF digits = <<>> THEN 0
    ELSE 10 * Decimal(SubSeq(digits, 1, Len(digits) - 1)) + DigitOf(digits[Len(digits)])

\* str::parse::<u8>: decimal digits whose value fits eight bits
parse_u8(digits) ==
    IF /\ digits # <<>>
       /\ \A i \in DOMAIN digits : digits[i] \in Range(DigitChars)
       /\ Decimal(digits) <= U8Max
    THEN {Decimal(digits)}
    ELSE {}

\* Regex ^[a-z0-9][a-z0-9\-]{0,62}$
hostname_regex(name) ==
    /\ Len(name) \in 1..63
    /\ name[1] \in LowerChars \cup Range(DigitChars)
    /\ \A i \in DOMAIN name : name[i] \in LowerChars \cup Range(DigitChars) \cup {"-"}

\* Regex ^([0-9A-Fa-f]{2}[:-]){5}([0-9A-Fa-f]{2})$ on the addresses tried
mac_address_regex(a) == a = "02:42:34:d1:18:7a"

\* IpV6String::normalize: the address and the mask after a '/', if there is one
normalize(self) ==
    IF self.slash
    THEN LET mask == parse_u8(self.suffix)
             addr == parse_IpAddr(self.addr)
         IN  IF mask # {} /\ addr # {}
             THEN [ok |-> TRUE, addr |-> Unwrap(addr), mask |-> mask]
             ELSE [ok |-> FALSE, addr |-> "", mask |-> {}]
    ELSE LET addr == parse_IpAddr(self.addr)
         IN  IF addr # {}
             THEN [ok |-> TRUE, addr |-> Unwrap(addr), mask |-> {}]
             ELSE [ok |-> FALSE, addr |-> "", mask |-> {}]

Bail(message) == [ok |-> FALSE, err |-> message]

\* the range tests of the two prefix lengths
ipv4_cidr_contains(cidr) == cidr \in 0..(32 - 1)
ipv6_cidr_contains(cidr) == cidr \in 0..(128 - 1)

\* what validate_host makes of the ipv6 fields of a host that has an address
ValidateIpv6(host, default) ==
    LET ipv6_cidr == Option_or(host.ipv6_cidr, default.ipv6_cidr)
        ipv6_gateway == Option_or(host.ipv6_gateway, default.ipv6_gateway)
        normalized == normalize(Unwrap(host.ipv6_address))
    IN  IF ~normalized.ok THEN Bail("ipv6_address is not valid")
        ELSE IF ~is_ipv6(normalized.addr) THEN Bail("ipv6_address is not an ipv6 address")
        ELSE IF ipv6_cidr # {} /\ ~ipv6_cidr_contains(Unwrap(ipv6_cidr))
             THEN Bail("ipv6_cidr is not between 0 and 128")
        ELSE IF ipv6_cidr = {} /\ normalized.mask = {} THEN Bail("no ipv6_cidr provided")
        ELSE IF ipv6_gateway = {} THEN Bail("no ipv6_gateway provided")
        ELSE [ok |-> TRUE, ipv6_address |-> {normalized.addr}, mask |-> normalized.mask]

DefaultDisks == <<"/dev/nvme0n1", "/dev/nvme1n1">>

validate_host(name, host, default) ==
    LET ipv4_cidr == Option_or(host.ipv4_cidr, default.ipv4_cidr)
        ipv4_gateway == Option_or(host.ipv4_gateway, default.ipv4_gateway)
        ipv6_cidr == Option_or(host.ipv6_cidr, default.ipv6_cidr)
        ipv6_gateway == Option_or(host.ipv6_gateway, default.ipv6_gateway)
        ipv6 == IF host.ipv6_address # {} THEN ValidateIpv6(host, default)
                ELSE [ok |-> TRUE, ipv6_address |-> {}, mask |-> {}]
        public_ssh_keys == host.public_ssh_keys \o default.public_ssh_keys
        disks == Unwrap(Option_or(Option_or(host.disks, default.disks), {DefaultDisks}))
    IN  IF name = <<>> \/ Len(name) > 63
        THEN Bail("a host's name must be between 1 and 63 characters long")
        ELSE IF ~hostname_regex(name)
        THEN Bail("a host's name must only contain letters, digits and the hyphen")
        ELSE IF host.mac_address # {} /\ ~mac_address_regex(Unwrap(host.mac_address))
        THEN Bail("mac address does match a valid format")
        ELSE IF host.ipv4_address # {} /\ ~is_ipv4(Unwrap(host.ipv4_address))
        THEN Bail("ipv4_address is not an ipv4 address")
        ELSE IF ipv4_cidr # {} /\ ~ipv4_cidr_contains(Unwrap(ipv4_cidr))
        THEN Bail("ipv4_cidr is not between 0 and 32")
        ELSE IF host.nixos_module = {} THEN Bail("no nixos_module provided")
        ELSE IF ~ipv6.ok THEN ipv6
        ELSE IF Option_or(host.ipv4_address, ipv6.ipv6_address) = {}
        THEN Bail("no ipv4_address or ipv6_address provided")
        ELSE IF ipv4_gateway = {} /\ ipv6_gateway = {}
        THEN Bail("no ipv4_gateway or ipv6_gateway provided")
        ELSE IF public_ssh_keys = <<>> THEN Bail("no public_ssh_keys provided")
        ELSE IF disks = <<>> THEN Bail("no disks specified")
        ELSE [ok |-> TRUE,
              host |->
                [name |-> name,
                 nixos_module |-> Unwrap(host.nixos_module),
                 extra_nixos_modules |->
                     host.extra_nixos_modules \o default.extra_nixos_modules,
                 install_ssh_user |->
                     Unwrap(Option_or(Option_or(host.install_ssh_user,
                                                default.install_ssh_user), {"root"})),
                 ssh_hostname |->
                     Unwrap(Option_or(Option_or(host.ssh_hostname, default.ssh_hostname),
                                      Option_or(host.ipv4_address, ipv6.ipv6_address))),
                 mac_address |-> host.mac_address,
                 ipv4_address |-> host.ipv4_address,
                 ipv4_cidr |-> ipv4_cidr,
                 ipv4_gateway |-> ipv4_gateway,
                 ipv6_address |-> ipv6.ipv6_address,
                 ipv6_cidr |-> Option_or(ipv6.mask, ipv6_cidr),
                 ipv6_gateway |-> ipv6_gateway,
                 public_ssh_keys |-> public_ssh_keys,
                 disks |-> disks,
                 bitcoind_disks |->
                     Unwrap(Option_or(Option_or(host.bitcoind_disks, default.bitcoind_disks),
                                      {<<>>})),
                 cockroach_peers |-> <<>>]]

\* HostConfig::default()
HostConfig_default ==
    [ipv4_address |-> {}, ipv4_gateway |-> {}, ipv4_cidr |-> {}, nixos_module |-> {},
     extra_nixos_modules |-> <<>>, mac_address |-> {}, ipv6_address |-> {},
     ipv6_gateway |-> {}, ipv6_cidr |-> {}, public_ssh_keys |-> <<>>,
     install_ssh_user |-> {}, ssh_hostname |-> {}, disks |-> {}, bitcoind_disks |-> {}]

IpV6String(addr, slash, suffix) == [addr |-> addr, slash |-> slash, suffix |-> suffix]

\* the hosts validate_host is tried on
NamesTried == {<<"k", "l", "d", "-", "0", "0">>, <<>>, <<"-", "x">>, [i \in 1..64 |-> "a"]}

Ipv6AddressesTried ==
    {{}} \cup
    {{IpV6String("2607:5300:203:6cdf::", FALSE, <<>>)},
     {IpV6String("2607:5300:203:6cdf::", TRUE, <<"6", "4">>)},
     {IpV6String("2607:5300:203:6cdf::", TRUE, <<>>)},
     {IpV6String("2607:5300:203:6cdf::", TRUE, <<"3", "0", "0">>)},
     {IpV6String("192.168.0.1", FALSE, <<>>)},
     {IpV6String("", TRUE, <<"6", "4">>)}}

HostsTried ==
    {[HostConfig_default EXCEPT
          !.ipv4_address = ipv4_address, !.ipv4_gateway = ipv4_gateway,
          !.ipv4_cidr = ipv4_cidr, !.nixos_module = nixos_module,
          !.mac_address = mac_address, !.ipv6_address = ipv6_address,
          !.ipv6_gateway = ipv6_gateway, !.ipv6_cidr = ipv6_cidr,
          !.public_ssh_keys = public_ssh_keys] :
        ipv4_address \in {{}, {"192.168.0.1"}, {"2607:5300:203:6cdf::"}},
        ipv4_gateway \in {{}, {"192.168.255.255"}},
        ipv4_cidr \in {{}, {0}, {32 - 1}, {32}, {U8Max}},
        nixos_module \in {{}, {"kld-node"}},
        mac_address \in {{}, {"02:42"}},
        ipv6_address \in Ipv6AddressesTried,
        ipv6_gateway \in {{}, {"2607:5300:203:6cff::1"}},
        ipv6_cidr \in {{}, {0}, {128 - 1}, {128}},
        public_ssh_keys \in {<<>>, <<"ssh-ed25519 AAAA">>}}

DefaultsTried ==
    {HostConfig_default,
     [HostConfig_default EXCEPT !.ipv4_cidr = {24}, !.ipv6_cidr = {48},
                                !.public_ssh_keys = <<"ssh-ed25519 AAAA">>]}

validate_host_call ==
    /\ ~validated.called
    /\ \E name \in NamesTried, host \in HostsTried, default \in DefaultsTried :
          validated' = [called |-> TRUE, name |-> name, host |-> host, default |-> default,
                        result |-> validate_host(name, host, default)]
    /\ UNCHANGED parsed
    /\ Frame_mgr

HostNext == validate_host_call

HostSpec == Init /\ [][HostNext]_vars

\* the hosts of a configuration file are numbered; host i is named db-i, so
\* that the order of the BTreeMap is the order of the numbers
HostIds == 1..MaxHosts

NameOf(i) == <<"d", "b", "-", DigitChars[i + 1]>>

\* a host of the test configuration with the nixos_module given, or without one
HostWith(nixos_module) ==
    [HostConfig_default EXCEPT !.ipv4_address = {"192.168.0.1"},
                               !.nixos_module = nixos_module]

TestDefaults ==
    [HostConfig_default EXCEPT !.ipv4_cidr = {24}, !.ipv4_gateway = {"192.168.255.255"},
                               !.public_ssh_keys = <<"ssh-ed25519 AAAA">>]

ModulesTried == {{"kld-node"}, {"cockroachdb-node"}, {"other-node"}, {}}

CountModule(hosts, nixos_module) ==
    Cardinality({i \in DOMAIN hosts : hosts[i].nixos_module = nixos_module})

\* the possible results of parse_config on a configuration file that is toml or
\* is not: the error of a host that validate_host rejects (the HashMap yields
\* them in no fixed order), or the verdict on the two counts
parse_config(well_formed, config) ==
    LET validations == [i \in DOMAIN config.hosts |->
                           validate_host(NameOf(i), config.hosts[i], config.host_defaults)]
        rejected == {i \in DOMAIN validations : ~validations[i].ok}
        hosts == [i \in DOMAIN validations |-> validations[i].host]
        cockroach_peers ==
            [k \in 1..Cardinality(DOMAIN hosts) |->
                LET i == CHOOSE j \in DOMAIN hosts :
                             Cardinality({l \in DOMAIN hosts : l < j}) = k - 1
                IN  [name |-> NameOf(i),
                     ipv4_address |-> hosts[i].ipv4_address,
                     ipv6_address |-> hosts[i].ipv6_address]]
        kld_nodes == CountModule(hosts, "kld-node")
        cockroach_nodes == CountModule(hosts, "cockroachdb-node")
    IN  IF ~well_formed THEN {Bail("toml")}
        ELSE IF rejected # {} THEN {validations[i] : i \in rejected}
        ELSE IF kld_nodes # 1 THEN {Bail("Exactly one kld-node is required")}
        ELSE IF cockroach_nodes # 0 /\ cockroach_nodes < 2
        THEN {Bail("Either zero or two cockroach-nodes are required")}
        ELSE {[ok |-> TRUE,
               hosts |-> [i \in DOMAIN hosts |->
                             [hosts[i] EXCEPT !.cockroach_peers = cockroach_peers]]]}

parse_config_call ==
    /\ ~parsed.called
    /\ \E well_formed \in BOOLEAN, named \in SUBSET HostIds :
          \E hosts \in [named -> {HostWith(m) : m \in ModulesTried}] :
              LET config == [host_defaults |-> TestDefaults, hosts |-> hosts]
              IN  \E returned \in parse_config(well_formed, config) :
                      parsed' = [called |-> TRUE, well_formed |-> well_formed,
                                 config |-> config, result |-> returned]
    /\ UNCHANGED validated
    /\ Frame_mgr

ConfigNext == parse_config_call

ConfigSpec == Init /\ [][ConfigNext]_vars

\* ------------------------------------------------- settings and announcer
\* the settings are read before the node starts
load_settings(bitcoin_network, public_addresses, node_name) ==
    /\ ~up
    /\ settings' = [bitcoin_network |-> bitcoin_network, public_addresses |-> public_addresses,
                    node_name |-> node_name]
    /\ settings' # settings
    /\ UNCHANGED <<dbManager, manager, controller, background_processor, announcements,
                   quit_signal, rest, requests, grace_elapsed, stopping, peers_disconnected,
                   polls_after_quit>>
    /\ UNCHANGED <<asyncVars, storeVars, monitorVars, apiVars, peerVars, startVars, chainVars,
                   raceVars, obsVars, toolVars>>

\* alias: [0; 32] with the bytes of node_name copied to its start
Alias(node_name) == node_name \o [i \in 1..(AliasLen - Len(node_name)) |-> 0]

\* the announcer's task: interval.tick().await, broadcast_node_announcement
broadcast_node_announcement ==
    /\ "regularly_broadcast_node_announcement" \in tasks
    /\ announcements' = announcements \cup
            {[rgb |-> <<0, 0, 0>>, alias |-> Alias(settings.node_name),
              addresses |-> settings.public_addresses]}
    /\ announcements' # announcements
    /\ UNCHANGED <<dbManager, manager, controller, background_processor, settings,
                   quit_signal, rest, requests, grace_elapsed, stopping, peers_disconnected,
                   polls_after_quit>>
    /\ UNCHANGED <<asyncVars, storeVars, monitorVars, apiVars, peerVars, startVars, chainVars,
                   raceVars, obsVars, toolVars>>

\* ----------------------------------------------------------- GET /v1/getinfo
\* Controller::num_peers and Controller::network, the LightningInterface of the API
num_peers == Cardinality(peer_node_ids)
network == settings.bitcoin_network

GetInfo(peers, is_testnet) ==
    [kind |-> "GetInfo", num_peers |-> peers, synced_to_chain |-> TRUE, testnet |-> is_testnet]

InfoAnswer(macaroon, status_code, body) ==
    /\ apiReq' = [method |-> "GET", path |-> "GET_INFO", macaroon |-> macaroon]
    /\ apiResp' = [status |-> status_code,
                   op |-> IF status_code = 200 THEN "get_info" ELSE "none", checked |-> TRUE]
    /\ apiParam' = ""
    /\ apiBody' = body
    /\ apiSeen' = [peers |-> peer_node_ids, network |-> settings.bitcoin_network]
    /\ UNCHANGED <<asyncVars, storeVars, monitorVars, peerVars, startVars, nodeVars, chainVars,
                   raceVars, obsVars, toolVars>>

\* faulty handler: testnet is told from the name of one network
get_info_testnet_only(macaroon) ==
    IF ~verify_readonly_macaroon(macaroon)
    THEN InfoAnswer(macaroon, 401, NoBody)
    ELSE InfoAnswer(macaroon, 200, GetInfo(num_peers, network = "testnet"))

\* this handler answers a failed verification with the bare status
get_info(macaroon) ==
    IF ~verify_readonly_macaroon(macaroon)
    THEN InfoAnswer(macaroon, 401, NoBody)
    ELSE InfoAnswer(macaroon, 200, GetInfo(num_peers, network # "bitcoin"))

InfoNext ==
    \/ \E bitcoin_network \in Networks, public_addresses \in SUBSET PublicAddresses,
          node_name \in NodeNames : load_settings(bitcoin_network, public_addresses, node_name)
    \/ \E pk \in Remotes : peer_connected(pk)
    \/ \E pk \in Remotes : peer_disconnected(pk)
    \/ \E macaroon \in Macaroons : get_info(macaroon)

InfoSpec == Init /\ [][InfoNext]_vars

\* ------------------------------------------------------ Controller start
\* the funding outpoints of a set of persisted monitors, as the vector start_ldk gets
RECURSIVE AsVector(_)
AsVector(outpoints) ==
    IF outpoints = {} THEN <<>>
    ELSE LET o == CHOOSE x \in outpoints : \A y \in outpoints : x <= y
         IN <<o>> \o AsVector(outpoints \ {o})

\* the chain listeners of sync_to_chain_tip: the channel manager, then each monitor
chain_listeners ==
    {[listener |-> "channel_manager", funding_outpoint |-> 0]} \cup
    {[listener |-> "monitor", funding_outpoint |-> loaded[i]] : i \in DOMAIN loaded}

\* bitcoind reaches the chain tip
bitcoind_synchronised ==
    /\ ~chainSynced
    /\ chainSynced' = TRUE
    /\ UNCHANGED <<boot, loaded, synchronized, watched, poller, tasks>>
    /\ UNCHANGED <<asyncVars, storeVars, monitorVars, apiVars, peerVars, nodeVars, chainVars,
                   raceVars, obsVars, toolVars>>

\* the background processor's persister: persist_manager
persist_manager ==
    /\ background_processor = "running"
    /\ ~dbManager
    /\ dbManager' = TRUE
    /\ UNCHANGED <<manager, controller, background_processor, settings, announcements,
                   quit_signal, rest, requests, grace_elapsed, stopping, peers_disconnected,
                   polls_after_quit>>
    /\ UNCHANGED <<asyncVars, storeVars, monitorVars, apiVars, peerVars, startVars, chainVars,
                   raceVars, obsVars, toolVars>>

\* the heights from+1 .. to, in order
RECURSIVE BlocksFrom(_, _)
BlocksFrom(from, to) ==
    IF from >= to THEN <<>> ELSE <<from + 1>> \o BlocksFrom(from + 1, to)

\* Listen::block_connected for each block after the listener's own, up to the tip
ConnectTo(connected, from, to, ls) ==
    [l \in Listeners |-> IF l \in ls THEN connected[l] \o BlocksFrom(from[l], to)
                                     ELSE connected[l]]

\* the block a listener stands at: its own and what was connected since
StandsAt(l) == blockhash[l] + Len(block_connected[l])

\* the listener ids of sync_to_chain_tip
ListenerIds == {0} \cup {loaded[i] : i \in DOMAIN loaded}

\* a fresh channel manager stands at the best block, and there are no monitors
FreshAt(height) == [l \in Listeners |-> IF l = 0 THEN height ELSE 0]

\* the block hashes stored with the channel manager and with each monitor
StoredHashes(channelmonitors) ==
    {h \in [Listeners -> 0..best_block] :
        \A l \in Listeners : l \notin ({0} \cup channelmonitors) => h[l] = 0}

\* bitcoind receives a block
bitcoind_block ==
    /\ best_block < MaxHeight
    /\ best_block' = best_block + 1
    /\ UNCHANGED <<blockhash, block_connected, chain_tip, errors_before>>
    /\ UNCHANGED <<asyncVars, storeVars, monitorVars, apiVars, peerVars, startVars, nodeVars, raceVars, obsVars, toolVars>>

\* what start_ldk does once its channel manager is built: the background
\* processor is started, the start-up task spawned and Ok(Controller) returned
Started(channelmonitors, channel_manager, hashes) ==
    /\ manager' = channel_manager
    /\ blockhash' = hashes
    /\ background_processor' = "running"
    /\ loaded' = AsVector(channelmonitors)
    /\ boot' = "wait_for_blockchain_synchronisation"
    /\ controller' = "Ok"

\* what start_ldk does when one of its steps fails: Err is returned
Failed(read) ==
    /\ manager' = [NoManager EXCEPT !.read = read]
    /\ controller' = "Err"
    /\ UNCHANGED <<background_processor, loaded, boot, blockhash>>

\* a start_ldk that builds a fresh manager when the stored one cannot be read
start_ldk_fallback(channelmonitors) ==
    /\ up /\ controller = "none" /\ boot = "none"
    /\ first_start => channelmonitors = {}
    /\ IF first_start \/ ~dbManager
       THEN Started(channelmonitors, [kind |-> "fresh", read |-> ~first_start, monitors |-> {}],
                    FreshAt(best_block))
       ELSE \E hashes \in StoredHashes(channelmonitors) :
               Started(channelmonitors, [kind |-> "loaded", read |-> TRUE,
                                         monitors |-> channelmonitors], hashes)
    /\ UNCHANGED <<chainSynced, synchronized, watched, poller, tasks, dbManager>>
    /\ UNCHANGED <<settings, announcements, quit_signal, rest, requests, grace_elapsed,
                   stopping, peers_disconnected, polls_after_quit>>
    /\ UNCHANGED <<best_block, block_connected, chain_tip, errors_before>>
    /\ UNCHANGED <<asyncVars, storeVars, monitorVars, apiVars, peerVars, raceVars, obsVars, toolVars>>

\* start_ldk: is_first_start, the monitors are fetched, the channel manager is
\* created at the best block or read from the store, the background processor
\* is started and the start-up task spawned; a failing step returns the error
start_ldk(channelmonitors) ==
    /\ up /\ controller = "none" /\ boot = "none"
    /\ first_start => channelmonitors = {}
    /\ \E failing \in {"none", "before", "manager", "after"} :
        IF failing \in {"before", "after"}
        THEN Failed(failing = "after" /\ ~first_start)
        ELSE IF first_start
        THEN IF failing = "none"
             THEN Started(channelmonitors, [kind |-> "fresh", read |-> FALSE, monitors |-> {}],
                          FreshAt(best_block))
             ELSE Failed(FALSE)
        ELSE IF failing = "none" /\ dbManager
             THEN \E hashes \in StoredHashes(channelmonitors) :
                     Started(channelmonitors, [kind |-> "loaded", read |-> TRUE,
                                               monitors |-> channelmonitors], hashes)
             ELSE Failed(TRUE)
    /\ UNCHANGED <<chainSynced, synchronized, watched, poller, tasks, dbManager>>
    /\ UNCHANGED <<settings, announcements, quit_signal, rest, requests, grace_elapsed,
                   stopping, peers_disconnected, polls_after_quit>>
    /\ UNCHANGED <<best_block, block_connected, chain_tip, errors_before>>
    /\ UNCHANGED <<asyncVars, storeVars, monitorVars, apiVars, peerVars, raceVars, obsVars, toolVars>>

\* a wait that returns whatever bitcoind's state
wait_for_blockchain_synchronisation_unchecked ==
    /\ boot = "wait_for_blockchain_synchronisation"
    /\ boot' = "synchronize_listeners"
    /\ UNCHANGED <<chainSynced, loaded, synchronized, watched, poller, tasks>>
    /\ UNCHANGED <<asyncVars, storeVars, monitorVars, apiVars, peerVars, nodeVars, chainVars,
                   raceVars, obsVars, toolVars>>

\* bitcoind_client.wait_for_blockchain_synchronisation().await returns
wait_for_blockchain_synchronisation ==
    /\ boot = "wait_for_blockchain_synchronisation"
    /\ chainSynced
    /\ boot' = "synchronize_listeners"
    /\ UNCHANGED <<chainSynced, loaded, synchronized, watched, poller, tasks>>
    /\ UNCHANGED <<asyncVars, storeVars, monitorVars, apiVars, peerVars, nodeVars, chainVars,
                   raceVars, obsVars, toolVars>>

\* a synchronisation that brings only the channel manager to the tip
synchronize_listeners_manager_only ==
    /\ boot = "synchronize_listeners"
    /\ synchronized' = {l \in chain_listeners : l.listener = "channel_manager"}
    /\ block_connected' = ConnectTo(block_connected, blockhash, best_block, {0})
    /\ chain_tip' = best_block
    /\ boot' = "watch_channel"
    /\ UNCHANGED <<chainSynced, loaded, watched, poller, tasks>>
    /\ UNCHANGED <<best_block, blockhash, errors_before>>
    /\ UNCHANGED <<asyncVars, storeVars, monitorVars, apiVars, peerVars, nodeVars, raceVars, obsVars, toolVars>>

\* a synchronisation that walks every listener from the channel manager's block
synchronize_listeners_one_hash ==
    /\ boot = "synchronize_listeners"
    /\ synchronized' = chain_listeners
    /\ block_connected' = ConnectTo(block_connected, [l \in Listeners |-> blockhash[0]],
                                    best_block, ListenerIds)
    /\ chain_tip' = best_block
    /\ boot' = "watch_channel"
    /\ UNCHANGED <<chainSynced, loaded, watched, poller, tasks>>
    /\ UNCHANGED <<best_block, blockhash, errors_before>>
    /\ UNCHANGED <<asyncVars, storeVars, monitorVars, apiVars, peerVars, nodeVars, raceVars, obsVars, toolVars>>

\* sync_to_chain_tip: init::synchronize_listeners(..).await?, unwrapped by the task
synchronize_listeners ==
    /\ boot = "synchronize_listeners"
    /\ \E ok \in BOOLEAN :
        IF ok THEN /\ synchronized' = chain_listeners
                   /\ block_connected' = ConnectTo(block_connected, blockhash, best_block,
                                                   ListenerIds)
                   /\ chain_tip' = best_block
                   /\ boot' = "watch_channel"
              ELSE /\ boot' = "panicked"
                   /\ UNCHANGED <<synchronized, block_connected, chain_tip>>
    /\ UNCHANGED <<chainSynced, loaded, watched, poller, tasks>>
    /\ UNCHANGED <<best_block, blockhash, errors_before>>
    /\ UNCHANGED <<asyncVars, storeVars, monitorVars, apiVars, peerVars, nodeVars, raceVars, obsVars, toolVars>>

\* sync_to_chain_tip: watch_channel for the next monitor, asserted Completed
watch_channel ==
    /\ boot = "watch_channel"
    /\ Len(watched) < Len(loaded)
    /\ LET channel_monitor == loaded[Len(watched) + 1] IN
       \E watch_status \in {"Completed", "InProgress", "PermanentFailure"} :
        /\ watched' = Append(watched, [funding_outpoint |-> channel_monitor,
                                       monitor |-> channel_monitor, status |-> watch_status])
        /\ boot' = IF watch_status = "Completed" THEN "watch_channel" ELSE "panicked"
    /\ UNCHANGED <<chainSynced, loaded, synchronized, poller, tasks>>
    /\ UNCHANGED <<asyncVars, storeVars, monitorVars, apiVars, peerVars, nodeVars, chainVars,
                   raceVars, obsVars, toolVars>>

\* sync_to_chain_tip: the poller is spawned and Ok(()) returned
spawn_poller ==
    /\ boot = "watch_channel"
    /\ Len(watched) = Len(loaded)
    /\ poller' = "spawned"
    /\ boot' = "listen"
    /\ UNCHANGED <<chainSynced, loaded, synchronized, watched, tasks>>
    /\ UNCHANGED <<asyncVars, storeVars, monitorVars, apiVars, peerVars, nodeVars, chainVars,
                   raceVars, obsVars, toolVars>>

\* what a poll leaves for the poller's listeners and its record of errors
Polled(polled) ==
    /\ IF polled = "Ok"
       THEN /\ block_connected' =
                ConnectTo(block_connected, [l \in Listeners |-> chain_tip], best_block,
                          {0} \cup {watched[i].funding_outpoint : i \in DOMAIN watched})
            /\ chain_tip' = best_block
            /\ errors_before' = IF chain_tip < best_block /\ poller = "Err"
                                THEN errors_before ELSE 0
       ELSE /\ UNCHANGED <<block_connected, chain_tip>>
            /\ errors_before' = IF poller # "Err" THEN 1
                                ELSE IF errors_before < MaxPolls THEN errors_before + 1
                                ELSE MaxPolls
    /\ polls_after_quit' = IF quit_signal /\ polls_after_quit < MaxPolls
                           THEN polls_after_quit + 1 ELSE polls_after_quit
    /\ UNCHANGED <<boot, chainSynced, loaded, synchronized, watched, tasks>>
    /\ UNCHANGED <<best_block, blockhash>>
    /\ UNCHANGED <<dbManager, manager, controller, background_processor, settings,
                   announcements, quit_signal, rest, requests, grace_elapsed, stopping,
                   peers_disconnected>>
    /\ UNCHANGED <<asyncVars, storeVars, monitorVars, apiVars, peerVars, raceVars, obsVars, toolVars>>

\* faulty poller: an error of poll_best_tip ends the task
poll_best_tip_exit ==
    /\ poller \notin {"none", "ended"}
    /\ \E polled \in {"Ok", "Err"} :
        /\ poller' = (IF polled = "Err" THEN "ended" ELSE polled)
        /\ Polled(polled)

\* the poller: spv_client.poll_best_tip() every second, errors are logged
poll_best_tip ==
    /\ poller # "none"
    /\ \E polled \in {"Ok", "Err"} :
        /\ poller' = polled
        /\ Polled(polled)

\* peer_manager.listen().await: the port is bound, or the task panics
listen ==
    /\ boot = "listen"
    /\ \E bound \in BOOLEAN :
        IF bound THEN /\ tasks' = tasks \cup {"listen"}
                      /\ boot' = "keep_channel_peers_connected"
                 ELSE /\ boot' = "panicked"
                      /\ UNCHANGED tasks
    /\ UNCHANGED <<chainSynced, loaded, synchronized, watched, poller>>
    /\ UNCHANGED <<asyncVars, storeVars, monitorVars, apiVars, peerVars, nodeVars, chainVars,
                   raceVars, obsVars, toolVars>>

\* peer_manager.keep_channel_peers_connected()
keep_channel_peers_connected ==
    /\ boot = "keep_channel_peers_connected"
    /\ tasks' = tasks \cup {"keep_channel_peers_connected"}
    /\ boot' = "regularly_broadcast_node_announcement"
    /\ UNCHANGED <<chainSynced, loaded, synchronized, watched, poller>>
    /\ UNCHANGED <<asyncVars, storeVars, monitorVars, apiVars, peerVars, nodeVars, chainVars,
                   raceVars, obsVars, toolVars>>

\* peer_manager.regularly_broadcast_node_announcement(), and the task ends
regularly_broadcast_node_announcement ==
    /\ boot = "regularly_broadcast_node_announcement"
    /\ tasks' = tasks \cup {"regularly_broadcast_node_announcement"}
    /\ boot' = "started"
    /\ UNCHANGED <<chainSynced, loaded, synchronized, watched, poller>>
    /\ UNCHANGED <<asyncVars, storeVars, monitorVars, apiVars, peerVars, nodeVars, chainVars,
                   raceVars, obsVars, toolVars>>

StartNext ==
    \/ \E bitcoin_network \in {"bitcoin"}, public_addresses \in SUBSET PublicAddresses,
          node_name \in NodeNames : load_settings(bitcoin_network, public_addresses, node_name)
    \/ broadcast_node_announcement
    \/ start_node
    \/ stop_node
    \/ persist_manager
    \/ bitcoind_synchronised
    \/ \E channelmonitors \in SUBSET FundingOutpoints : start_ldk(channelmonitors)
    \/ wait_for_blockchain_synchronisation
    \/ synchronize_listeners
    \/ watch_channel
    \/ spawn_poller
    \/ poll_best_tip
    \/ listen
    \/ keep_channel_peers_connected
    \/ regularly_broadcast_node_announcement

StartSpec == Init /\ [][StartNext]_vars

\* start-up and the poller while bitcoind receives blocks
SyncNext ==
    \/ start_node
    \/ stop_node
    \/ persist_manager
    \/ bitcoind_synchronised
    \/ bitcoind_block
    \/ \E channelmonitors \in SUBSET FundingOutpoints : start_ldk(channelmonitors)
    \/ wait_for_blockchain_synchronisation
    \/ synchronize_listeners
    \/ watch_channel
    \/ spawn_poller
    \/ poll_best_tip

SyncSpec == Init /\ [][SyncNext]_vars

\* the poller's task polls every second for as long as the process runs, and the
\* errors of bitcoind are transient: a poll that succeeds is not put off for ever
SyncFairSpec ==
    /\ SyncSpec
    /\ WF_vars(poll_best_tip /\ poller' = "Ok")

\* ---------------------------------------------------------------- shutdown
\* the quit signal fires
quit ==
    /\ up
    /\ ~quit_signal
    /\ quit_signal' = TRUE
    /\ UNCHANGED <<dbManager, manager, controller, background_processor, settings,
                   announcements, rest, requests, grace_elapsed, stopping, peers_disconnected,
                   polls_after_quit>>
    /\ UNCHANGED <<asyncVars, storeVars, monitorVars, apiVars, peerVars, startVars, chainVars,
                   raceVars, obsVars, toolVars>>

\* 30 s pass after the quit signal
grace_period_elapses ==
    /\ quit_signal
    /\ ~grace_elapsed
    /\ grace_elapsed' = TRUE
    /\ UNCHANGED <<dbManager, manager, controller, background_processor, settings,
                   announcements, quit_signal, rest, requests, stopping, peers_disconnected,
                   polls_after_quit>>
    /\ UNCHANGED <<asyncVars, storeVars, monitorVars, apiVars, peerVars, startVars, chainVars,
                   raceVars, obsVars, toolVars>>

\* RestApi::serve is called: the router is built and the select! entered
serve ==
    /\ controller = "Ok"
    /\ rest = "none"
    /\ rest' = "serving"
    /\ UNCHANGED <<dbManager, manager, controller, background_processor, settings,
                   announcements, quit_signal, requests, grace_elapsed, stopping,
                   peers_disconnected, polls_after_quit>>
    /\ UNCHANGED <<asyncVars, storeVars, monitorVars, apiVars, peerVars, startVars, chainVars,
                   raceVars, obsVars, toolVars>>

\* the server accepts a connection and starts on its request
accept_request(r) ==
    /\ rest = "serving"
    /\ requests[r] = "none"
    /\ requests' = [requests EXCEPT ![r] = "in_flight"]
    /\ UNCHANGED <<dbManager, manager, controller, background_processor, settings,
                   announcements, quit_signal, rest, grace_elapsed, stopping,
                   peers_disconnected, polls_after_quit>>
    /\ UNCHANGED <<asyncVars, storeVars, monitorVars, apiVars, peerVars, startVars, chainVars,
                   raceVars, obsVars, toolVars>>

\* a request's handler answers
complete_request(r) ==
    /\ requests[r] = "in_flight"
    /\ requests' = [requests EXCEPT ![r] = "completed"]
    /\ UNCHANGED <<dbManager, manager, controller, background_processor, settings,
                   announcements, quit_signal, rest, grace_elapsed, stopping,
                   peers_disconnected, polls_after_quit>>
    /\ UNCHANGED <<asyncVars, storeVars, monitorVars, apiVars, peerVars, startVars, chainVars,
                   raceVars, obsVars, toolVars>>

\* select!: the quit_signal branch. graceful_shutdown is called on a Handle the
\* server was never given, the server future is dropped and serve returns Ok
serve_quit ==
    /\ rest = "serving"
    /\ quit_signal
    /\ rest' = "returned on quit"
    /\ UNCHANGED <<dbManager, manager, controller, background_processor, settings,
                   announcements, quit_signal, requests, grace_elapsed, stopping,
                   peers_disconnected, polls_after_quit>>
    /\ UNCHANGED <<asyncVars, storeVars, monitorVars, apiVars, peerVars, startVars, chainVars,
                   raceVars, obsVars, toolVars>>

\* select!: the server branch. server.serve ends by itself and serve returns Ok
serve_ended ==
    /\ rest = "serving"
    /\ rest' = "returned"
    /\ UNCHANGED <<dbManager, manager, controller, background_processor, settings,
                   announcements, quit_signal, requests, grace_elapsed, stopping,
                   peers_disconnected, polls_after_quit>>
    /\ UNCHANGED <<asyncVars, storeVars, monitorVars, apiVars, peerVars, startVars, chainVars,
                   raceVars, obsVars, toolVars>>

\* a stop that stops the background processor before it disconnects the peers
stop_background_processor_first ==
    /\ controller = "Ok"
    /\ stopping \in {"idle", "returned"}
    /\ background_processor' = IF background_processor = "running" THEN "stopped"
                               ELSE background_processor
    /\ stopping' = "disconnected"
    /\ UNCHANGED <<peer_node_ids, link, missed, peers_disconnected>>
    /\ UNCHANGED <<channelPeers, call, disc, loop, gone, rowBy, removed>>
    /\ UNCHANGED <<dbManager, manager, controller, settings, announcements,
                   quit_signal, rest, requests, grace_elapsed, polls_after_quit>>
    /\ UNCHANGED <<asyncVars, storeVars, monitorVars, apiVars, startVars, chainVars, raceVars, obsVars, toolVars>>

\* Controller::stop up to the lock: peer_manager.disconnect_all_peers()
StopEnters(next) ==
    /\ controller = "Ok"
    /\ peer_node_ids' = {}
    /\ link' = CloseLinks(link, Remotes)
    /\ missed' = [pk \in Remotes |-> 0]
    /\ peers_disconnected' = TRUE
    /\ stopping' = next
    /\ UNCHANGED <<channelPeers, call, disc, loop, gone, rowBy, removed>>
    /\ UNCHANGED <<dbManager, manager, controller, background_processor, settings, announcements,
                   quit_signal, rest, requests, grace_elapsed, polls_after_quit>>
    /\ UNCHANGED <<asyncVars, storeVars, monitorVars, apiVars, startVars, chainVars, raceVars,
                   obsVars, listVars, harnessVars, openVars, mgrVars>>

\* Controller::stop: peer_manager.disconnect_all_peers()
stop ==
    /\ ~dropped
    /\ stopping \in {"idle", "returned"}
    /\ Len(stop_log) < MaxStops
    /\ StopEnters("disconnected")
    /\ UNCHANGED stopVars

\* Controller::stop after a call that panicked with the lock held: the peers
\* are disconnected and lock().unwrap() panics on the poisoned Mutex
stop_poisoned ==
    /\ ~dropped
    /\ stopping = "panicked"
    /\ bgp_mutex = "poisoned"
    /\ Len(stop_log) < MaxStops
    /\ StopEnters("panicked")
    /\ stop_log' = Append(stop_log, "panicked")
    /\ UNCHANGED <<bgp_mutex, bgp_stops, dropped>>

\* Drop for Controller: the last owner lets go of it and drop calls stop
drop ==
    /\ ~dropped
    /\ stopping \in {"idle", "returned", "panicked"}
    /\ Len(stop_log) < MaxStops
    /\ dropped' = TRUE
    /\ IF bgp_mutex = "poisoned"
       THEN /\ StopEnters("panicked")
            /\ stop_log' = Append(stop_log, "panicked")
       ELSE /\ StopEnters("disconnected")
            /\ UNCHANGED stop_log
    /\ UNCHANGED <<bgp_mutex, bgp_stops>>

\* a stop that does not take the background processor out of its Option and
\* stops it on every call
stop_background_processor_again ==
    /\ stopping = "disconnected"
    /\ IF background_processor # "none"
       THEN /\ background_processor' = "stopped"
            /\ stopping' = "returned"
            /\ bgp_stops' = bgp_stops + 1
            /\ stop_log' = Append(stop_log, "returned")
            /\ UNCHANGED bgp_mutex
       ELSE /\ stopping' = "returned"
            /\ stop_log' = Append(stop_log, "returned")
            /\ UNCHANGED <<background_processor, bgp_mutex, bgp_stops>>
    /\ UNCHANGED dropped
    /\ UNCHANGED <<dbManager, manager, controller, settings, announcements,
                   quit_signal, rest, requests, grace_elapsed, peers_disconnected,
                   polls_after_quit>>
    /\ UNCHANGED <<asyncVars, storeVars, monitorVars, apiVars, peerVars, startVars, chainVars,
                   raceVars, obsVars, listVars, harnessVars, openVars, mgrVars>>

\* Controller::stop: the background processor is taken and stopped, if it is
\* still there; one that did not stop cleanly panics the caller, which holds
\* the lock
stop_background_processor ==
    /\ stopping = "disconnected"
    /\ IF background_processor = "running"
       THEN \E clean \in BOOLEAN :
               /\ background_processor' = IF clean THEN "stopped" ELSE "failed"
               /\ stopping' = IF clean THEN "returned" ELSE "panicked"
               /\ bgp_mutex' = IF clean THEN bgp_mutex ELSE "poisoned"
               /\ bgp_stops' = bgp_stops + 1
               /\ stop_log' = Append(stop_log, IF clean THEN "returned" ELSE "panicked")
       ELSE /\ stopping' = "returned"
            /\ stop_log' = Append(stop_log, "returned")
            /\ UNCHANGED <<background_processor, bgp_mutex, bgp_stops>>
    /\ UNCHANGED dropped
    /\ UNCHANGED <<dbManager, manager, controller, settings, announcements,
                   quit_signal, rest, requests, grace_elapsed, peers_disconnected,
                   polls_after_quit>>
    /\ UNCHANGED <<asyncVars, storeVars, monitorVars, apiVars, peerVars, startVars, chainVars,
                   raceVars, obsVars, listVars, harnessVars, openVars, mgrVars>>

\* the REST server from serve to the quit signal
ServeNext ==
    \/ start_node
    \/ stop_node
    \/ \E channelmonitors \in {{}} : start_ldk(channelmonitors)
    \/ serve
    \/ \E r \in RequestIds : accept_request(r)
    \/ \E r \in RequestIds : complete_request(r)
    \/ quit
    \/ grace_period_elapses
    \/ serve_quit
    \/ serve_ended

ServeSpec == Init /\ [][ServeNext]_vars

\* a first start, the poller and Controller::stop
StopNext ==
    \/ start_node
    \/ stop_node
    \/ bitcoind_synchronised
    \/ \E channelmonitors \in {{}} : start_ldk(channelmonitors)
    \/ wait_for_blockchain_synchronisation
    \/ synchronize_listeners
    \/ spawn_poller
    \/ poll_best_tip
    \/ \E pk \in Remotes : peer_connected(pk)
    \/ \E pk \in Remotes : peer_disconnected(pk)
    \/ quit
    \/ stop
    \/ stop_poisoned
    \/ drop
    \/ stop_background_processor

StopSpec == Init /\ [][StopNext]_vars

\* ------------------------------------------------------------------ claims
Yields(t, r) ==
    /\ pc[t] = "waiting" => ReceiverReady(t) /\ ReceiverYield(t) = r
    /\ pc[t] = "done" => recv[t] = r

\* C1: once insert(k, v) has returned a receiver and respond(k, r) is the next
\* operation on k, the receiver yields exactly r.
C1_RespondDelivers ==
    \A t \in Tasks :
        expect[t].kind = "responded" => Yields(t, [got |-> "value", val |-> expect[t].val])

C1_Witness ==
    \E t \in Tasks :
        /\ expect[t].kind = "responded"
        /\ pc[t] = "done"
        /\ recv[t].val.ok

\* no other call drew the same random user_channel_id
DistinctId(t) == \A u \in Tasks \ {t} : uid[u] # uid[t]

\* C2: whenever the FundingGenerationReady event of a call (with an id of its own)
\* is handled, the call's entry is in the table, so that the lookup succeeds.
C2_EntryPresentWhenHandled ==
    [][(handle_event_lookup /\ DistinctId(Head(events).call))
          => Head(events).user_channel_id \in DOMAIN senders]_vars

\* C3: with distinct ids in flight, a call that returns returns what was responded
\* for its own user_channel_id, and its txid is the txid of its transaction.
C3_OwnResult ==
    \A t \in Tasks :
        (pc[t] = "done" /\ ldk[t] # "none" /\ DistinctId(t)) =>
            LET r == responded[uid[t]] IN
            /\ r.kind = "responded"
            /\ IF r.val.ok
               THEN /\ result[t].status = "ok"
                    /\ result[t].tx = r.val.tx
                    /\ result[t].txid = txid(r.val.tx)
               ELSE result[t].status = "err"

C3_Witness ==
    \E t, u \in Tasks :
        /\ uid[t] # uid[u]
        /\ pc[t] = "done" /\ pc[u] = "done"
        /\ result[t].status = "ok" /\ result[u].status = "ok"
        /\ result[t].tx # result[u].tx
        /\ responded[uid[t]].val.tx = result[t].tx

\* C4: every entry created by insert is eventually removed from the table.
C4_EntryEventuallyConsumed ==
    \A k \in Keys : (k \in DOMAIN senders) ~> (k \notin DOMAIN senders)

\* C5: when the Sender stored by an insert is dropped without a response (the
\* closure returned by get is discarded, or a second insert replaces the entry),
\* the receiver of that insert yields an error and does not block.
C5_DroppedSenderYieldsError ==
    \A t \in Tasks :
        expect[t].kind \in {"discarded", "replaced"} =>
            Yields(t, [got |-> "error", val |-> Err])

C5_Witness ==
    /\ \E t \in Tasks : expect[t].kind = "discarded" /\ recv[t].got = "error"
    /\ \E t \in Tasks : expect[t].kind = "replaced" /\ recv[t].got = "error"

\* C8: is_first_start() is true exactly until persist_keys has been called, and
\* from then on fetch_keys() returns the persisted pair, in every later run.
C8_NodeIdentity ==
    /\ is_first_start <=> keysGiven = NoKeys
    /\ keysGiven # NoKeys => fetch_keys = keysGiven /\ Cardinality(dbKeys) = 1
    /\ up => nodeKeys = keysGiven

C8_Witness ==
    /\ up
    /\ ~first_start
    /\ ~is_first_start
    /\ nodeKeys = keysGiven
    /\ fetch_keys = keysGiven

C6_Durability ==
    \A o \in Outpoints :
        /\ write[o].st # "none" => status[o] = "InProgress"
        /\ status[o] = "Completed" =>
              \E m \in MonitorsOf(o) : m.latest_update_id >= mon[o]
        /\ completedTo[o] >= 0 =>
              \E m \in MonitorsOf(o) : m.latest_update_id >= completedTo[o]

C6_Witness ==
    \E o \in Outpoints :
        /\ completedTo[o] >= 2
        /\ status[o] = "none"
        /\ mon[o] > completedTo[o]

\* C7: per outpoint every commit raises the persisted update id; once the
\* activity of a channel has produced the updates 0..N and none is outstanding,
\* the store returns exactly one monitor for the outpoint, at update id N; for
\* an outpoint without a channel it returns none.
C7_UpdateIds ==
    \A o \in Outpoints :
        /\ Persisted(o) > prevPersisted[o]
        /\ mon[o] = -1 /\ write[o].st = "none" => MonitorsOf(o) = {}
        /\ (mon[o] >= 0 /\ write[o].st = "none" /\ ~failed[o]) =>
              /\ Cardinality(MonitorsOf(o)) = 1
              /\ \A m \in MonitorsOf(o) : m.latest_update_id = mon[o]

C7_Witness ==
    \E o \in Outpoints :
        /\ mon[o] = MaxUpdateId
        /\ closed[o]
        /\ write[o].st = "none"
        /\ \E m \in MonitorsOf(o) : m.latest_update_id = MaxUpdateId

Served == apiReq # NoRequest
Routed == apiReq.path \in RoutedPaths /\ apiReq.method = Routes[apiReq.path].method
BadToken == apiReq.macaroon \in {"absent", "garbage", "foreign"}

C10_RoutedNeedToken ==
    (Served /\ Routed /\ BadToken) => (apiResp.status = 401 /\ apiResp.op = "none")

\* C10 as stated: every routed operation answers a missing or invalid macaroon
\* with 401 and calls no operation, and only a request to an unknown path is
\* answered without a token check, with 404.
C10_OnlyUnknownPathUnchecked ==
    /\ C10_RoutedNeedToken
    /\ (Served /\ ~apiResp.checked) =>
          (apiReq.path \notin RoutedPaths /\ apiResp.status = 404)

\* C10 amended: every routed operation answers a missing or invalid macaroon
\* with 401 and calls no operation; the requests answered without a token check
\* are those to an unknown path (404), those to a routed path with a method the
\* path is not routed for (405) and the OPTIONS requests the CORS layer answers
\* (200), and none of them calls an operation.
C10_UncheckedCallNothing ==
    /\ C10_RoutedNeedToken
    /\ (Served /\ ~apiResp.checked) =>
          /\ apiResp.op = "none"
          /\ \/ apiReq.method = "OPTIONS" /\ apiResp.status = 200
             \/ apiReq.path \notin RoutedPaths /\ apiResp.status = 404
             \/ /\ apiReq.path \in RoutedPaths
                /\ apiReq.method # Routes[apiReq.path].method
                /\ apiResp.status = 405
    /\ (Served /\ apiResp.op # "none") =>
          Verify(Routes[apiReq.path].role, apiReq.macaroon)

C10_Witness ==
    /\ apiReq = [method |-> "POST", path |-> "OPEN_CHANNEL", macaroon |-> "garbage"]
    /\ apiResp = [status |-> 401, op |-> "none", checked |-> TRUE]

AdminRoutes ==
    {"OPEN_CHANNEL", "SET_CHANNEL_FEE", "CLOSE_CHANNEL", "NEW_ADDR", "WITHDRAW",
     "CONNECT_PEER", "DISCONNECT_PEER"}

C13_NoRowAfterDisconnect ==
    \A pk \in Remotes :
        gone[pk] = "row deleted" => (pk \notin RowKeys \/ pk \notin rowBy)

C15_AlreadyConnected ==
    call.entry => (call.pc = "done" /\ call.result = "Ok" /\ ~call.tcp /\ ~call.wrote)

C15_Witness ==
    /\ call.pc = "done"
    /\ call.entry
    /\ call.result = "Ok"
    /\ is_connected(call.pk)
    /\ call.pk \notin RowKeys

\* C16: a connect_peer call that returns an error has written no peer row.
C16_ErrorWritesNothing ==
    (call.pc = "done" /\ call.result # "Ok") => ~call.wrote

\* C17: once the connection is open, connect_peer returns Ok only after it saw
\* is_connected(pub) true, and otherwise returns "Peer disconnected", with the
\* connection task finished; it never returns Ok for a peer it never saw
\* connected.
C17_OkOnlyWhenConnected ==
    /\ (call.pc = "done" /\ call.result = "Ok") => (call.entry \/ call.saw)
    /\ (call.pc = "done" /\ call.tcp) =>
          \/ call.result = "Ok" /\ call.saw
          \/ call.result = "Peer disconnected" /\ ~call.saw /\ link.st = "closed"

C17_Witness ==
    /\ call.pc = "done"
    /\ call.tcp
    /\ call.result = "Peer disconnected"
    /\ ~is_connected(call.pk)

\* C18: every connect_peer call eventually returns.
C18_ConnectReturns ==
    (call.pc \notin {"idle", "done"}) ~> (call.pc = "done")

\* the monitors watch_channel was called for, and whether all calls Completed
WatchedMonitors == {watched[i].monitor : i \in DOMAIN watched}
LoadedMonitors == {loaded[i] : i \in DOMAIN loaded}
AllRegistered ==
    /\ WatchedMonitors = LoadedMonitors
    /\ \A i \in DOMAIN watched : watched[i].status = "Completed"

\* C19: a peer task (listener, reconnect loop, announcer) runs only once chain
\* synchronisation has finished - listeners synchronised, monitors registered,
\* poller spawned - and chain synchronisation starts only once
\* wait_for_blockchain_synchronisation has returned, bitcoind being synchronised.
C19_StartupOrdering ==
    /\ tasks # {} =>
        /\ synchronized = chain_listeners
        /\ AllRegistered
        /\ poller # "none"
        /\ boot \in {"keep_channel_peers_connected",
                     "regularly_broadcast_node_announcement", "started"}
    /\ (synchronized # {} \/ watched # <<>> \/ poller # "none"
            \/ boot \notin {"none", "wait_for_blockchain_synchronisation"})
        => chainSynced
    /\ "keep_channel_peers_connected" \in tasks => "listen" \in tasks
    /\ "regularly_broadcast_node_announcement" \in tasks
        => "keep_channel_peers_connected" \in tasks

C19_Witness ==
    /\ boot = "started"
    /\ tasks = {"listen", "keep_channel_peers_connected",
                "regularly_broadcast_node_announcement"}
    /\ Len(loaded) >= 2

\* C20: every loaded monitor is given to watch_channel once, under its own
\* funding outpoint, only after synchronize_listeners brought every listener to
\* the tip; the poller runs only when every loaded monitor is registered.
C20_MonitorsRegistered ==
    /\ \A i \in DOMAIN watched :
        /\ watched[i].funding_outpoint = watched[i].monitor
        /\ watched[i].monitor \in LoadedMonitors
        /\ \A j \in DOMAIN watched : i # j => watched[i].monitor # watched[j].monitor
    /\ watched # <<>> => synchronized = chain_listeners
    /\ (poller # "none" \/ boot \in {"listen", "keep_channel_peers_connected",
            "regularly_broadcast_node_announcement", "started"})
        => AllRegistered /\ Len(watched) = Len(loaded)

C20_Witness ==
    /\ poller = "Ok"
    /\ Len(watched) >= 2
    /\ AllRegistered

\* a watch_channel call of this run answered something other than Completed
WatchFailed == \E i \in DOMAIN watched : watched[i].status # "Completed"

\* C21: a watch_channel status other than Completed during start-up is fatal:
\* the node process is not left running, with its controller handed out and its
\* background processor at work, once a monitor failed to register.
C21_WatchFailureFatal ==
    WatchFailed => (~up /\ controller # "Ok" /\ background_processor # "running")

\* C23: on first start the channel manager is created fresh and no stored
\* manager is read; on a later start it is read from the store with the monitors
\* just loaded, never created; a start_ldk that cannot read it returns Err with
\* no manager, no background processor and no start-up task.
C23_ManagerFreshOrLoaded ==
    /\ manager.kind = "fresh" => (first_start /\ ~manager.read /\ manager.monitors = {})
    /\ manager.kind = "loaded" =>
        (~first_start /\ manager.read /\ dbManager /\ manager.monitors = LoadedMonitors)
    /\ (up /\ first_start) => ~manager.read
    /\ controller = "Ok" => manager.kind = (IF first_start THEN "fresh" ELSE "loaded")
    /\ controller = "Err" =>
        (manager.kind = "none" /\ background_processor = "none" /\ boot = "none")

C23_Witness ==
    /\ controller = "Ok"
    /\ ~first_start
    /\ manager.kind = "loaded"
    /\ manager.monitors = {1}

\* C22: every listener - the channel manager and each loaded monitor - has been
\* connected exactly the blocks after its own recorded one, in height order with
\* none skipped or repeated; synchronize_listeners leaves all of them at the tip
\* it returns, and the poller goes on from that tip for all of them.
C22_ContiguousBlocks ==
    \A l \in ListenerIds :
        /\ block_connected[l] = BlocksFrom(blockhash[l], StandsAt(l))
        /\ StandsAt(l) <= best_block
        /\ (boot \notin {"none", "wait_for_blockchain_synchronisation",
                          "synchronize_listeners", "panicked"} \/ poller # "none")
            => StandsAt(l) = chain_tip

C22_Witness ==
    /\ poller = "Ok"
    /\ blockhash[0] = 1 /\ blockhash[1] = 0
    /\ block_connected[0] = <<2>>
    /\ block_connected[1] = <<1, 2>>

\* C24: when serve returns because of the quit signal, no request that was being
\* processed is still unanswered, unless the 30 s of the drain have passed.
C24_DrainBeforeReturn ==
    (rest = "returned on quit" /\ ~grace_elapsed)
        => \A r \in RequestIds : requests[r] # "in_flight"

\* C25: the background processor is stopped only after stop has disconnected
\* the peers, stop returns only with the background processor stopped, and a
\* background processor that did not stop cleanly panics stop.
C25_StopOrdering ==
    /\ background_processor \in {"stopped", "failed"} => peers_disconnected
    /\ stopping = "returned" => background_processor = "stopped"
    /\ background_processor = "failed" => stopping = "panicked"

C25_Witness ==
    /\ stopping = "returned"
    /\ background_processor = "stopped"
    /\ peers_disconnected
    /\ peer_node_ids = {}
    /\ quit_signal

\* C26: after the quit signal the poller polls at most once more.
C26_PollerStopsAfterQuit ==
    polls_after_quit <= 1

\* C27: without configured public addresses no announcer task runs and nothing
\* is broadcast; every broadcast carries the configured addresses, the alias
\* and the zero colour.
C27_AnnouncementsNeedAddresses ==
    /\ settings.public_addresses = {} =>
        ("regularly_broadcast_node_announcement" \notin tasks /\ announcements = {})
    /\ \A a \in announcements :
        /\ a.addresses = settings.public_addresses
        /\ a.alias = Alias(settings.node_name)
        /\ a.rgb = <<0, 0, 0>>


\* C28: every API error answers with the HTTP status of its kind (Unauthorized 401,
\* NotFound 404, BadRequest 400, InternalServerError 500) and a JSON body whose
\* status field is the string form of that status; a malformed public key in
\* DELETE /v1/peer/disconnect/:id with an admin macaroon answers 400, an unknown
\* network channel id answers 404.
C28_ErrorRendering ==
    /\ apiBody.kind = "Unauthorized" =>
          apiResp.status = 401 /\ apiBody.json.status = "401 Unauthorized"
    /\ apiBody.kind = "NotFound" =>
          apiResp.status = 404 /\ apiBody.json.status = "404 Not Found"
    /\ apiBody.kind = "BadRequest" =>
          apiResp.status = 400 /\ apiBody.json.status = "400 Bad Request"
    /\ apiBody.kind = "InternalServerError" =>
          apiResp.status = 500 /\ apiBody.json.status = "500 Internal Server Error"
    /\ apiResp.status \in {400, 401, 404, 500} <=> apiBody.kind \in ApiErrors
    /\ apiBody.kind \in ApiErrors => DOMAIN apiBody.json = {"status", "detail"}
    /\ (apiReq.path = "DISCONNECT_PEER" /\ apiReq.method = "DELETE"
          /\ apiReq.macaroon = "admin" /\ apiParam = "abcd") =>
          apiResp.status = 400 /\ apiBody.kind = "BadRequest"
    /\ (apiReq.path = "LIST_NETWORK_CHANNEL" /\ apiReq.method = "GET"
          /\ apiReq.macaroon \in {"readonly", "admin"} /\ apiParam = "123456789") =>
          apiResp.status = 404 /\ apiBody.kind = "NotFound"

C28_Witness ==
    /\ apiReq = [method |-> "DELETE", path |-> "DISCONNECT_PEER", macaroon |-> "admin"]
    /\ apiParam = "abcd"
    /\ apiResp.status = 400
    /\ apiBody.json.status = "400 Bad Request"

\* C29: GET /v1/getinfo with a valid macaroon answers with num_peers equal to the
\* number of peers connected when it was served, and with testnet true exactly
\* when the configured network is not bitcoin mainnet.
C29_GetInfo ==
    (apiReq.path = "GET_INFO" /\ apiReq.method = "GET"
       /\ apiReq.macaroon \in {"readonly", "admin"}) =>
        /\ apiResp.status = 200
        /\ apiBody.kind = "GetInfo"
        /\ apiBody.num_peers = Cardinality(apiSeen.peers)
        /\ apiBody.testnet = (apiSeen.network \in {"testnet", "signet", "regtest"})

C29_Witness ==
    /\ apiReq = [method |-> "GET", path |-> "GET_INFO", macaroon |-> "readonly"]
    /\ apiResp.status = 200
    /\ apiSeen.network = "regtest"
    /\ apiBody.testnet
    /\ apiSeen.peers = Remotes
    /\ apiBody.num_peers = MaxRemotes

\* C30: get(k) and respond(k, r) remove the entry atomically. Of the calls racing
\* for one entry exactly one obtains its Sender and the others find nothing, so
\* at most one response is sent on an entry's channel; when the Receiver was
\* dropped the entry is removed all the same and the call returns.
C30_AtomicRemoval ==
    /\ \A t \in Tasks : obtained[t] <= 1 /\ sent[t] <= obtained[t]
    /\ \A r \in Racers : racer[r].pc = "done" =>
          /\ racer[r].removed
          /\ racer[r].got # 0 => obtained[racer[r].got] = 1
          /\ racer[r].warned => racer[r].got # 0 /\ chan[racer[r].got].st = "closed"
          /\ (racer[r].seen # 0 /\ racer[r].got = 0) =>
                \/ obtained[racer[r].seen] = 1
                \/ \E t \in Tasks \ {racer[r].seen} : pc[t] # "idle" /\ uid[t] = racer[r].k
    /\ \A r1, r2 \in Racers :
          (racer[r1].pc = "done" /\ racer[r2].pc = "done" /\ r1 # r2 /\ racer[r1].got # 0) =>
             racer[r1].got # racer[r2].got

\* two calls raced for the entry of one insert: one obtained it, the other found nothing
C30_Witness ==
    \E r1, r2 \in Racers, t \in Tasks :
        /\ r1 # r2
        /\ racer[r1].pc = "done" /\ racer[r2].pc = "done"
        /\ racer[r1].seen = t /\ racer[r2].seen = t
        /\ racer[r1].op = "respond" /\ racer[r2].op = "get"
        /\ racer[r1].got = t /\ racer[r2].got = 0
        /\ racer[r1].warned
        /\ sent[t] = 1

\* C31 as stated: every connect_peer call of the reconnect task is for a channel
\* counterparty that is not connected and has a peer row when the call is made.
C31_AttemptsOnlyUnconnected ==
    keeper.pc = "connect" => (~keeper.at.connected /\ keeper.at.channel /\ keeper.at.row)

\* C31, amended: the task calls connect_peer exactly for the counterparties that
\* list_channels held and get_peer_node_ids lacked at the head of the iteration
\* and that fetch_peer finds a row for; an error of fetch_peer or of connect_peer
\* does not end the task, the counterparties left in the iteration are still
\* handled, and the next iteration lists the counterparty again.
C31_ReconnectLoop ==
    /\ keeper.pc = "connect" => (keeper.at.listed /\ keeper.at.row)
    /\ keeper.pc \in {"tick", "fetch", "connect"}
    /\ keeper.pc # "tick" =>
          /\ [i \in DOMAIN keeper.log |-> keeper.log[i].node_id] \o keeper.todo
               = SelectSeq(keeper.listed, LAMBDA id : id \notin keeper.connected_node_ids)
          /\ keeper.calls = Cardinality({i \in DOMAIN keeper.log : keeper.log[i].fetched = "Some"})

\* a failed fetch_peer was followed, in the same iteration, by a connect_peer call
\* for the next counterparty, and the first one was tried again on the next tick
C31_Witness ==
    /\ keeper.pc = "connect"
    /\ Len(keeper.log) = 2
    /\ keeper.log[1].node_id # keeper.log[2].node_id
    /\ keeper.log[1].fetched = "Err"
    /\ keeper.log[2].fetched = "Some"
    /\ keeper.node_id \notin node_ids
    /\ keeper.node_id \in keeper.before
    /\ ~keeper.at.connected

\* the listeners of the poller: the channel manager and the monitors the chain
\* monitor watches
PollerListeners == {0} \cup {watched[i].funding_outpoint : i \in DOMAIN watched}

\* C32: the poller survives errors of poll_best_tip: while the process runs, a
\* block bitcoind has and the poller's listeners lack is delivered to the channel
\* manager and to the chain monitor by a later poll, whatever number of polls
\* failed before.
C32_PollerSurvivesErrors ==
    (poller # "none" /\ chain_tip < best_block)
        ~> (poller = "none" \/ \A l \in PollerListeners : StandsAt(l) = best_block)

\* a poll that followed failed polls has delivered a new block to a monitor and
\* to the channel manager
C32_Witness ==
    /\ poller = "Ok"
    /\ errors_before = MaxPolls
    /\ 1 \in PollerListeners
    /\ \A l \in PollerListeners : StandsAt(l) = best_block /\ block_connected[l] # <<>>
    /\ chain_tip = MaxHeight

\* C33: once Controller::stop has disconnected the peers no peer is connected
\* again: while the background processor is stopped the peer manager has no
\* connected peer.
C33_NoPeerAfterStop ==
    (peers_disconnected /\ background_processor = "stopped") => peer_node_ids = {}

\* C34: for every peer list_peers returns, whatever address is known of it, the
\* status is Connected exactly when the peer was among the connected peers the
\* call read.
C34_StatusIsConnection ==
    peers_listed.result = "Ok" =>
        \A p \in peers_listed.peers :
            (p.status = "Connected")
                <=> (\E c \in peers_listed.connected_peers : c.node_id = p.public_key)

\* C35: the shared backend of the database tests is never killed while a test
\* that obtained it is still running its body, and whenever no test is inside
\* cockroach() or teardown() the counter is the number of tests running their
\* body.
C35_KilledOnlyWhenUnused ==
    /\ killed_under = {}
    /\ (\A t \in Tests : tests[t].pc \in {"idle", "test", "returned"}) =>
          COCKROACH_REF_COUNT = Cardinality({t \in Tests : tests[t].pc = "test"})

\* C36: over any number of calls of Controller::stop, the one made by Drop
\* included, the background processor is stopped at most once, by the first
\* call, and no call after the first panics.
C36_StopIdempotent ==
    /\ bgp_stops <= 1
    /\ (bgp_stops = 1) <=> (background_processor \in {"stopped", "failed"})
    /\ \A i \in DOMAIN stop_log : i > 1 => stop_log[i] = "returned"

\* C36, amended: the background processor is stopped at most once, by the
\* first call, and every later call ends as the first one did: it returns if
\* the first returned and panics on the poisoned lock if the first panicked.
C36_StopOnce ==
    /\ bgp_stops <= 1
    /\ (bgp_stops = 1) <=> (background_processor \in {"stopped", "failed"})
    /\ \A i \in DOMAIN stop_log : stop_log[i] = stop_log[1]
    /\ (stop_log # <<>> /\ stop_log[1] = "panicked") <=> bgp_mutex = "poisoned"

\* the Controller was dropped after two explicit calls that returned: the
\* background processor was stopped once and the drop's call returned too
C36_Witness ==
    /\ dropped
    /\ stop_log = <<"returned", "returned", "returned">>
    /\ bgp_stops = 1
    /\ background_processor = "stopped"
    /\ stopping = "returned"

\* C37: an open_channel that fails at the synchronisation check, at the
\* connection check or in create_channel returns an error and leaves the
\* funding-transaction table as it was; only the third has called
\* create_channel. A close_channel that fails at the synchronisation check has
\* not called the channel manager.
C37_FailsWithoutSideEffects ==
    [][/\ \A t \in Tasks :
            (pc[t] = "idle" /\ pc'[t] = "done") =>
                /\ result'[t].status = "err"
                /\ result'[t].err \in {"Bitcoind is syncronising blockchain",
                                       "Peer not connected", "ldk error"}
                /\ senders' = senders
                /\ chan' = chan
                /\ ldk' = ldk
                /\ cm_calls' =
                      IF result'[t].err = "ldk error"
                      THEN cm_calls \cup {[op |-> "create_channel", by |-> t, ok |-> FALSE]}
                      ELSE cm_calls
       /\ \A t \in Tasks :
            (closing'[t] # closing[t]
                /\ closing'[t].err = "Bitcoind is syncronising blockchain") =>
                    (cm_calls' = cm_calls /\ ldk' = ldk /\ senders' = senders)
      ]_vars

\* with an entry of another call in the table, one open_channel failed in
\* create_channel and a close_channel failed at the synchronisation check
C37_Witness ==
    \E t, u \in Tasks :
        /\ t # u
        /\ pc[t] = "waiting"
        /\ DOMAIN senders # {}
        /\ pc[u] = "done"
        /\ result[u].err = "ldk error"
        /\ [op |-> "create_channel", by |-> u, ok |-> FALSE] \in cm_calls
        /\ closing[t].err = "Bitcoind is syncronising blockchain"
        /\ ldk[t] = "opening"

\* C38: the channel counters partition the channel list: active, inactive and
\* pending channels add up to the channels list_channels returns, and no
\* channel is counted twice.
C38_CountersPartition ==
    /\ num_active_channels + num_inactive_channels + num_pending_channels = Len(list_channels)
    /\ \A i \in DOMAIN list_channels :
          LET c == list_channels[i]
          IN  Cardinality({k \in {"active", "inactive", "pending"} :
                  \/ k = "active" /\ c.is_usable
                  \/ k = "inactive" /\ c.is_channel_ready /\ ~c.is_usable
                  \/ k = "pending" /\ ~c.is_channel_ready}) = 1

\* channels of all three kinds are listed
C38_Witness ==
    /\ Len(list_channels) = MaxDetails
    /\ num_active_channels >= 1
    /\ num_inactive_channels >= 1
    /\ num_pending_channels >= 1

\* C40: validate_host accepts an ipv4_cidr exactly when it is between 0 and 32
\* and, for a host with an ipv6_address, an ipv6_cidr exactly when it is between
\* 0 and 128: with such a value the host is accepted if it is accepted with the
\* prefix length 0, with any other value it is rejected. A host with an
\* ipv6_address is accepted only with an ipv6_gateway and with a prefix length
\* from ipv6_cidr or from the address.
C40_CidrRanges ==
    validated.called =>
        LET name == validated.name
            host == validated.host
            default == validated.default
            ipv4_cidr == Option_or(host.ipv4_cidr, default.ipv4_cidr)
            ipv6_cidr == Option_or(host.ipv6_cidr, default.ipv6_cidr)
        IN  /\ ipv4_cidr # {} =>
                  (validated.result.ok <=>
                      /\ Unwrap(ipv4_cidr) \in 0..32
                      /\ validate_host(name, [host EXCEPT !.ipv4_cidr = {0}], default).ok)
            /\ (host.ipv6_address # {} /\ ipv6_cidr # {}) =>
                  (validated.result.ok <=>
                      /\ Unwrap(ipv6_cidr) \in 0..128
                      /\ validate_host(name, [host EXCEPT !.ipv6_cidr = {0}], default).ok)
            /\ (host.ipv6_address # {} /\ validated.result.ok) =>
                  /\ Option_or(host.ipv6_gateway, default.ipv6_gateway) # {}
                  /\ \/ ipv6_cidr # {}
                     \/ normalize(Unwrap(host.ipv6_address)).mask # {}

\* C39: parse_config accepts a configuration only with exactly one kld-node
\* host and with zero or two cockroachdb-node hosts, and in an accepted
\* configuration every host's cockroach_peers has one entry for every host.
C39_NodeCounts ==
    (parsed.called /\ parsed.result.ok) =>
        LET hosts == parsed.config.hosts
        IN  /\ CountModule(hosts, {"kld-node"}) = 1
            /\ CountModule(hosts, {"cockroachdb-node"}) \in {0, 2}
            /\ \A i \in DOMAIN hosts :
                  LET cockroach_peers == parsed.result.hosts[i].cockroach_peers
                  IN  /\ Len(cockroach_peers) = Cardinality(DOMAIN hosts)
                      /\ {cockroach_peers[k].name : k \in DOMAIN cockroach_peers}
                            = {NameOf(j) : j \in DOMAIN hosts}
====
